---- MODULE Spec2Model ----
(***************************************************************************)
(* Model of the page-table engine of hfo2 (src/hfo2/src/mm.rs).           *)
(*                                                                         *)
(* Descriptors are machine words (integers).  The heap `mem` maps the      *)
(* address of every page that can hold a raw page table to its array of    *)
(* descriptors; `pool` is the set of pages the memory pool holds.  Every   *)
(* operation of PageTable is one action; the stores, pool calls, fences    *)
(* and TLB invalidations it performs are recorded, in program order, in    *)
(* `last.log`, and the heap it started from in `last.pre`.                 *)
(***************************************************************************)
EXTENDS Integers, Sequences, FiniteSets, TLC

VARIABLES
    mem,        \* page address -> [0..PTE_PER_PAGE-1 -> descriptor word]
    pool,       \* pages currently held by the memory pool
    stage,      \* 1: PageTable<Stage1>, 2: PageTable<Stage2>
    blockTop,   \* highest level at which the architecture allows blocks
    s2inv,      \* STAGE2_INVALIDATE
    maxLevel,   \* S::max_level(): the level of the root tables' descriptors
    root,       \* self.root of the PageTable the caller addresses (0: none)
    tables,     \* the page tables that exist: <<root, stage>> of each
    cpus,       \* the CPUs inside exported functions, and HYPERVISOR_PAGE_TABLE's lock
    last        \* the last operation: arguments, result, event log, heap before

vars == <<mem, pool, stage, blockTop, s2inv, maxLevel, root, tables, cpus, last>>

(***************************************************************************)
(* Geometry (crate::page) and bounds.                                      *)
(***************************************************************************)
PAGE_BITS == 8
PAGE_LEVEL_BITS == 1
PAGE_SIZE == 2^PAGE_BITS
PTE_PER_PAGE == 2^PAGE_LEVEL_BITS
\* Two geometries are explored: two levels of tables (Spec), with every range
\* as input, and four levels (SpecDeep), with the ranges of DeepRanges as input.
ShallowMaxLevel == 1
DeepMaxLevel == 3
MAX_LEVEL == maxLevel
ROOT_TABLE_COUNT == 1

\* Pages the pool holds after the root has been taken.
PoolPages == 2
DeepPoolPages == 4
\* Largest number of pool.alloc calls the pool may grant within one operation.
MaxFuel == 2
DeepMaxFuel == 3

Deep == maxLevel = DeepMaxLevel

Idx == 0 .. (PTE_PER_PAGE - 1)

Min(a, b) == IF a <= b THEN a ELSE b

(***************************************************************************)
(* Mode and Flags bits.                                                    *)
(***************************************************************************)
MODE_R == 1
MODE_W == 2
MODE_X == 4
MODE_D == 8
MODE_INVALID == 16
MODE_UNOWNED == 32
MODE_SHARED == 64

HasBit(w, m) == (w \div m) % 2 = 1

RECURSIVE BitOr(_, _)
BitOr(a, b) ==
    IF a = 0 THEN b
    ELSE IF b = 0 THEN a
    ELSE (IF a % 2 = 1 \/ b % 2 = 1 THEN 1 ELSE 0) + 2 * BitOr(a \div 2, b \div 2)

\* Option<T>: None is the empty sequence, Some(x) the one-element sequence.
None == <<>>
Some(x) == <<x>>

(***************************************************************************)
(* Architecture adapter (the extern "C" block).  A descriptor word is      *)
(* address | attributes: the attributes live below PAGE_BITS, bit 0 is     *)
(* the valid bit and bit 1 tells a table from a block (and marks a block   *)
(* at level 0).                                                            *)
(***************************************************************************)
PTE_VALID == 1
PTE_TABLE == 2
ATTR_OWNED == 4
ATTR_EXCLUSIVE == 8
ATTR_R == 16
ATTR_W == 32
ATTR_X == 64
ATTR_D == 128

PteLow(pte) == pte % PAGE_SIZE
PteAddr(pte) == pte - (pte % PAGE_SIZE)

arch_mm_absent_pte(level) == 0

arch_mm_table_pte(level, pa) == BitOr(pa, PTE_TABLE + PTE_VALID)

arch_mm_block_pte(level, pa, attrs) ==
    BitOr(BitOr(pa, attrs), IF level = 0 THEN PTE_TABLE ELSE 0)

arch_mm_is_block_allowed(level) == level <= blockTop

arch_mm_pte_is_valid(pte, level) == HasBit(pte, PTE_VALID)

arch_mm_pte_is_present(pte, level) ==
    arch_mm_pte_is_valid(pte, level) \/ HasBit(pte, ATTR_OWNED)

arch_mm_pte_is_table(pte, level) ==
    level # 0 /\ arch_mm_pte_is_valid(pte, level) /\ HasBit(pte, PTE_TABLE)

arch_mm_pte_is_block(pte, level) ==
    /\ arch_mm_is_block_allowed(level)
    /\ IF level = 0
          THEN HasBit(pte, PTE_TABLE)
          ELSE arch_mm_pte_is_present(pte, level) /\ ~arch_mm_pte_is_table(pte, level)

arch_mm_clear_pa(pa) == PteAddr(pa)

arch_mm_block_from_pte(pte, level) == PteAddr(pte)

arch_mm_table_from_pte(pte, level) == PteAddr(pte)

\* The attribute bits of a word: everything below the address except bit 1.
arch_mm_pte_attrs(pte, level) ==
    PteLow(pte) - (IF HasBit(pte, PTE_TABLE) THEN PTE_TABLE ELSE 0)

\* Only table-specific attribute bits restrict the block; the valid bit of the
\* table descriptor is not one of them.
arch_mm_combine_table_entry_attrs(table_attrs, block_attrs) ==
    BitOr(block_attrs,
          table_attrs - (IF HasBit(table_attrs, PTE_VALID) THEN PTE_VALID ELSE 0))

ModeAccessAttrs(mode) ==
      (IF HasBit(mode, MODE_R) THEN ATTR_R ELSE 0)
    + (IF HasBit(mode, MODE_W) THEN ATTR_W ELSE 0)
    + (IF HasBit(mode, MODE_X) THEN ATTR_X ELSE 0)
    + (IF HasBit(mode, MODE_D) THEN ATTR_D ELSE 0)
    + (IF HasBit(mode, MODE_INVALID) THEN 0 ELSE PTE_VALID)

arch_mm_mode_to_stage1_attrs(mode) == ModeAccessAttrs(mode)

arch_mm_mode_to_stage2_attrs(mode) ==
      ModeAccessAttrs(mode)
    + (IF HasBit(mode, MODE_UNOWNED) THEN 0 ELSE ATTR_OWNED)
    + (IF HasBit(mode, MODE_SHARED) THEN 0 ELSE ATTR_EXCLUSIVE)

arch_mm_stage2_attrs_to_mode(attrs) ==
      (IF HasBit(attrs, ATTR_R) THEN MODE_R ELSE 0)
    + (IF HasBit(attrs, ATTR_W) THEN MODE_W ELSE 0)
    + (IF HasBit(attrs, ATTR_X) THEN MODE_X ELSE 0)
    + (IF HasBit(attrs, ATTR_D) THEN MODE_D ELSE 0)
    + (IF HasBit(attrs, PTE_VALID) THEN 0 ELSE MODE_INVALID)
    + (IF HasBit(attrs, ATTR_OWNED) THEN 0 ELSE MODE_UNOWNED)
    + (IF HasBit(attrs, ATTR_EXCLUSIVE) THEN 0 ELSE MODE_SHARED)

(***************************************************************************)
(* mod addr                                                                *)
(***************************************************************************)
\* usize: addresses are USIZE_BITS wide.
USIZE_BITS == 13
USIZE_MAX == 2^USIZE_BITS - 1

round_down_to_page(addr) == addr - (addr % PAGE_SIZE)

\* `addr + PAGE_SIZE - 1` does not fit usize: a build with overflow checks
\* panics here, a build without them wraps.
RoundUpOverflows(addr) == addr + PAGE_SIZE - 1 > USIZE_MAX

round_up_to_page(addr) == round_down_to_page((addr + PAGE_SIZE - 1) % 2^USIZE_BITS)

entry_size(level) == 2^(PAGE_BITS + level * PAGE_LEVEL_BITS)

\* Variant: the next block is not aligned to the block size.
start_of_next_block_Unaligned(addr, block_size) == addr + block_size

start_of_next_block(addr, block_size) ==
    (addr + block_size) - ((addr + block_size) % block_size)

level_end(addr, level) ==
    ((addr \div 2^(PAGE_BITS + (level + 1) * PAGE_LEVEL_BITS)) + 1)
        * 2^(PAGE_BITS + (level + 1) * PAGE_LEVEL_BITS)

index(addr, level) ==
    (addr \div 2^(PAGE_BITS + level * PAGE_LEVEL_BITS)) % (2^PAGE_LEVEL_BITS)

\* The addresses a BlockIter yields, in order.
RECURSIVE BlockIter(_, _, _)
BlockIter(begin, end, block_size) ==
    IF begin >= end THEN <<>>
    ELSE <<begin>> \o BlockIter(start_of_next_block(begin, block_size), end, block_size)

(***************************************************************************)
(* Heap, pool and event log.  An operation threads a record                *)
(*   [mem, pool, fuel, log, res]                                           *)
(* through its steps: fuel is the number of pool.alloc calls the pool      *)
(* still grants, res is "ok" while the operation runs, "none" once a `?`   *)
(* has returned None, "panic" once an arithmetic check has failed.         *)
(***************************************************************************)
\* The pages the pool was given: n + 1 pages from HeapBase on.
HeapBase == 16 * PAGE_SIZE
Heap(n) == { HeapBase + k * PAGE_SIZE : k \in 0 .. n }
Pages == DOMAIN mem
RootPage == root
RootTables == [ r \in 0 .. (ROOT_TABLE_COUNT - 1) |-> RootPage + r * PAGE_SIZE ]

Log(st, ev) == [st EXCEPT !.log = Append(@, ev)]

\* One more turn of a loop or one more call of a recursive function: the
\* operation's `steps` lists them in program order.
Step(st, ev) == [st EXCEPT !.steps = Append(@, ev)]

\* ptr::write(pte, value)
PtrWrite(st, page, i, value) ==
    Log([st EXCEPT !.mem[page][i] = value], <<"write", page, i, value>>)

\* MPool::alloc: the lowest free page, or nothing.
MPoolCanAlloc(st) == st.fuel > 0 /\ st.pool # {}

MPoolAllocPage(st) == CHOOSE p \in st.pool : \A q \in st.pool : p <= q

MPoolAlloc(st) ==
    Log([st EXCEPT !.pool = @ \ {MPoolAllocPage(st)}, !.fuel = @ - 1],
        <<"alloc", MPoolAllocPage(st)>>)

\* MPool::free: the pool takes the page back and reuses its contents.
MPoolFree(st, page) ==
    Log([st EXCEPT !.pool = @ \cup {page},
                   !.mem[page] = [i \in Idx |-> 0]],
        <<"free", page>>)

\* Stage::invalidate_tlb: the call, and the architecture's invalidation when
\* it reaches it.
ArchInvalidates == stage = 1 \/ s2inv

\* Variant: the stage-2 invalidation ignores the STAGE2_INVALIDATE flag.
invalidate_tlb_Ungated(st, begin, end) ==
    Log(Log(st, <<"invalidate_tlb", begin, end>>), <<"arch_invalidate", stage, begin, end>>)

\* Variant: the stage-1 invalidation honours the STAGE2_INVALIDATE flag too.
invalidate_tlb_AllGated(st, begin, end) ==
    IF s2inv
       THEN Log(Log(st, <<"invalidate_tlb", begin, end>>),
                <<"arch_invalidate", stage, begin, end>>)
       ELSE Log(st, <<"invalidate_tlb", begin, end>>)

invalidate_tlb(st, begin, end) ==
    LET called == Log(st, <<"invalidate_tlb", begin, end>>)
    IN  IF ArchInvalidates
           THEN Log(called, <<"arch_invalidate", stage, begin, end>>)
           ELSE called

mode_to_attrs(mode) ==
    IF stage = 1 THEN arch_mm_mode_to_stage1_attrs(mode)
                 ELSE arch_mm_mode_to_stage2_attrs(mode)

attrs_to_mode(attrs) == arch_mm_stage2_attrs_to_mode(attrs)

(***************************************************************************)
(* PageTableEntry                                                          *)
(***************************************************************************)
\* Variant: free returns nothing to the pool.
free_Leak(st, pte, level) == st

RECURSIVE free(_, _, _)
RECURSIVE FreeEntries(_, _, _, _)

\* The loop of free over the entries of the table at `table`.
FreeEntries(st, table, i, level) ==
    IF i >= PTE_PER_PAGE THEN st
    ELSE FreeEntries(free(st, st.mem[table][i], level), table, i + 1, level)

free(st, pte, level) ==
    IF arch_mm_pte_is_table(pte, level)
       THEN MPoolFree(FreeEntries(Step(st, <<"free", pte, level>>),
                                  arch_mm_table_from_pte(pte, level), 0, level - 1),
                      arch_mm_table_from_pte(pte, level))
       ELSE Step(st, <<"free", pte, level>>)

\* Variant: the table of the descriptor being installed is freed, the one of
\* the descriptor it replaces is kept.
replace_FreeNew(st, page, i, new_pte, begin, level) ==
    LET inner == st.mem[page][i]
        called == Log(st, <<"replace", page, i, inner, new_pte, begin, level>>)
        broken ==
            IF arch_mm_pte_is_valid(inner, level) /\ arch_mm_pte_is_valid(new_pte, level)
               THEN invalidate_tlb(PtrWrite(called, page, i, arch_mm_absent_pte(level)),
                                   begin, begin + entry_size(level))
               ELSE called
    IN  free(PtrWrite(broken, page, i, new_pte), new_pte, level)

replace(st, page, i, new_pte, begin, level) ==
    LET inner == st.mem[page][i]
        called == Log(st, <<"replace", page, i, inner, new_pte, begin, level>>)
        broken ==
            IF arch_mm_pte_is_valid(inner, level) /\ arch_mm_pte_is_valid(new_pte, level)
               THEN invalidate_tlb(PtrWrite(called, page, i, arch_mm_absent_pte(level)),
                                   begin, begin + entry_size(level))
               ELSE called
    IN  free(PtrWrite(broken, page, i, new_pte), inner, level)

\* The descriptor populate_table writes into entry k of the fresh table.
\* Variant: every child block gets the address of the block being split.
PopulateEntry_NoStride(pte, k, level) ==
    IF arch_mm_pte_is_block(pte, level)
       THEN arch_mm_block_pte(level - 1, pte, arch_mm_pte_attrs(pte, level))
       ELSE arch_mm_absent_pte(level - 1)

\* Variant: the fresh table's descriptors are absent also under a block.
PopulateEntry_Absent(pte, k, level) == arch_mm_absent_pte(level - 1)

PopulateEntry(pte, k, level) ==
    IF arch_mm_pte_is_block(pte, level)
       THEN arch_mm_block_pte(level - 1, pte + k * entry_size(level - 1),
                              arch_mm_pte_attrs(pte, level))
       ELSE arch_mm_absent_pte(level - 1)

RECURSIVE PopulateEntries(_, _, _, _, _)
PopulateEntries(st, table, k, pte, level) ==
    IF k >= PTE_PER_PAGE THEN st
    ELSE PopulateEntries(PtrWrite(st, table, k, PopulateEntry(pte, k, level)),
                         table, k + 1, pte, level)

\* Variant: the table descriptor is installed before the fresh table's
\* descriptors are written.
populate_table_PublishFirst(st, page, i, begin, level) ==
    LET pte == st.mem[page][i]
    IN  IF arch_mm_pte_is_table(pte, level) THEN st
        ELSE IF ~MPoolCanAlloc(st) THEN [Log(st, <<"dlog", level>>) EXCEPT !.res = "none"]
        ELSE IF level = 0 THEN [MPoolAlloc(st) EXCEPT !.res = "panic"]
        ELSE LET table == MPoolAllocPage(st)
                 installed == replace(MPoolAlloc(st), page, i,
                                      arch_mm_table_pte(level, table), begin, level)
             IN  Log(PopulateEntries(installed, table, 0, pte, level), <<"fence">>)

populate_table(st, page, i, begin, level) ==
    LET pte == st.mem[page][i]
    IN  IF arch_mm_pte_is_table(pte, level) THEN st
        ELSE IF ~MPoolCanAlloc(st) THEN [Log(st, <<"dlog", level>>) EXCEPT !.res = "none"]
        ELSE IF level = 0 THEN [MPoolAlloc(st) EXCEPT !.res = "panic"]
        ELSE LET table == MPoolAllocPage(st)
                 filled == PopulateEntries(MPoolAlloc(st), table, 0, pte, level)
                 fenced == Log(filled, <<"fence">>)
             IN  replace(fenced, page, i, arch_mm_table_pte(level, table), begin, level)

(***************************************************************************)
(* RawPageTable                                                            *)
(***************************************************************************)
\* Variant: a table is never reported empty, so it is never collapsed.
is_empty_Never(table, level) == FALSE

is_empty(table, level) == \A i \in Idx : ~arch_mm_pte_is_present(table[i], level)

FLAG_COMMIT == 1
FLAG_UNMAP == 2

RECURSIVE map_level(_, _, _, _, _, _, _)
RECURSIVE MapLevelLoop(_, _, _, _, _, _, _, _, _)

\* Variant: an unmap skips every descriptor that is not valid, present or not.
AlreadyMapped_ValidOnly(pte, attrs, level, unmap) ==
    \/ unmap /\ ~arch_mm_pte_is_valid(pte, level)
    \/ ~unmap /\ arch_mm_pte_is_block(pte, level) /\ arch_mm_pte_attrs(pte, level) = attrs

\* Variant: a block that already has the attributes is written again.
AlreadyMapped_NoSkip(pte, attrs, level, unmap) ==
    unmap /\ ~arch_mm_pte_is_present(pte, level)

\* The entry needs no change: it is absent and the range is being unmapped, or
\* it is a block with the attributes being mapped.
AlreadyMapped(pte, attrs, level, unmap) ==
    \/ unmap /\ ~arch_mm_pte_is_present(pte, level)
    \/ ~unmap /\ arch_mm_pte_is_block(pte, level) /\ arch_mm_pte_attrs(pte, level) = attrs

\* Variant: the entry is replaced whole although the range begins inside it.
WholeEntry_Unaligned(begin, end, level, unmap) ==
    /\ end - begin >= entry_size(level)
    /\ (unmap \/ arch_mm_is_block_allowed(level))

\* Variant: an entry the range covers exactly is not taken whole.
WholeEntry_StrictlyLarger(begin, end, level, unmap) ==
    /\ end - begin > entry_size(level)
    /\ (unmap \/ arch_mm_is_block_allowed(level))
    /\ begin % entry_size(level) = 0

\* Variant: a block is never written for a whole entry.
WholeEntry_UnmapOnly(begin, end, level, unmap) ==
    /\ end - begin >= entry_size(level)
    /\ unmap
    /\ begin % entry_size(level) = 0

\* The entire entry is within the region to map or unmap.
WholeEntry(begin, end, level, unmap) ==
    /\ end - begin >= entry_size(level)
    /\ (unmap \/ arch_mm_is_block_allowed(level))
    /\ begin % entry_size(level) = 0

\* One iteration of the loop of map_level, for the entry at index i and the
\* address `begin` the BlockIter yields for it.
MapLevelEntry(st, page, i, begin, end, attrs, level, flags) ==
    LET pte == st.mem[page][i]
        commit == HasBit(flags, FLAG_COMMIT)
        unmap == HasBit(flags, FLAG_UNMAP)
    IN  IF AlreadyMapped(pte, attrs, level, unmap) THEN st
        ELSE IF WholeEntry(begin, end, level, unmap)
             THEN IF commit
                     THEN replace(st, page, i,
                                  IF unmap THEN arch_mm_absent_pte(level)
                                           ELSE arch_mm_block_pte(level, begin, attrs),
                                  begin, level)
                     ELSE st
        ELSE LET populated == populate_table(st, page, i, begin, level)
                 table == arch_mm_table_from_pte(populated.mem[page][i], level)
                 mapped == map_level(populated, table, begin, end, attrs, level - 1, flags)
             IN  IF populated.res # "ok" THEN populated
                 ELSE IF mapped.res # "ok" THEN mapped
                 ELSE IF commit /\ unmap /\ is_empty(mapped.mem[table], level - 1)
                      THEN replace(mapped, page, i, arch_mm_absent_pte(level), begin, level)
                      ELSE mapped

\* ptes.zip(begins): entry first + k - 1 with begins[k], until either runs out
\* or an iteration has returned early.
MapLevelLoop(st, page, first, begins, k, end, attrs, level, flags) ==
    IF k > Len(begins) \/ first + k - 1 >= PTE_PER_PAGE \/ st.res # "ok" THEN st
    ELSE MapLevelLoop(
            MapLevelEntry(Step(st, <<"map_level", page, first + k - 1, begins[k], level,
                                     flags>>),
                          page, first + k - 1, begins[k], end, attrs, level, flags),
            page, first, begins, k + 1, end, attrs, level, flags)

map_level(st, page, begin, end, attrs, level, flags) ==
    MapLevelLoop(st, page, index(begin, level),
                 BlockIter(begin, Min(end, level_end(begin, level)), entry_size(level)),
                 1, end, attrs, level, flags)

\* Variant: the fold keeps the first value without comparing the others.
OptReduceFrom_NoCompare(acc, items, k) ==
    IF \E j \in k .. Len(items) : items[j] = None THEN None ELSE Some(acc)

\* OptReduce::opt_reduce with the closure |l, r| if l == r { Some(l) } else { None }.
RECURSIVE OptReduceFrom(_, _, _)
OptReduceFrom(acc, items, k) ==
    IF k > Len(items) THEN Some(acc)
    ELSE IF items[k] = None THEN None
    ELSE IF acc # items[k][1] THEN None
    ELSE OptReduceFrom(acc, items, k + 1)

opt_reduce(items) ==
    IF Len(items) = 0 THEN None
    ELSE IF items[1] = None THEN None
    ELSE OptReduceFrom(items[1][1], items, 2)

RECURSIVE get_attrs_level(_, _, _, _, _)
get_attrs_level(m, page, begin, end, level) ==
    LET first == index(begin, level)
        begins == BlockIter(begin, Min(end, level_end(begin, level)), entry_size(level))
        n == Min(Len(begins), PTE_PER_PAGE - first)
    IN  opt_reduce(
            [k \in 1 .. n |->
                LET pte == m[page][first + k - 1]
                IN  IF arch_mm_pte_is_table(pte, level)
                       THEN get_attrs_level(m, arch_mm_table_from_pte(pte, level),
                                            begins[k], end, level - 1)
                       ELSE Some(arch_mm_pte_attrs(pte, level))])

(***************************************************************************)
(* PageTableEntry::defrag: the heap after it, and the value it returns.    *)
(***************************************************************************)
\* Variant: the fold keeps the first child's value whatever the others are.
DefragReduceFrom_KeepFirst(acc, items, k) == acc

\* Variant: the comparison of the fold is inverted.
RECURSIVE DefragReduceFrom_Inverted(_, _, _)
DefragReduceFrom_Inverted(acc, items, k) ==
    IF k > Len(items) THEN acc
    ELSE DefragReduceFrom_Inverted(IF acc # items[k] THEN acc ELSE None, items, k + 1)

\* Iterator::reduce with the closure |l, r| if l == r { l } else { None }, over
\* the values the children's defrag returned.
RECURSIVE DefragReduceFrom(_, _, _)
DefragReduceFrom(acc, items, k) ==
    IF k > Len(items) THEN acc
    ELSE DefragReduceFrom(IF acc = items[k] THEN acc ELSE None, items, k + 1)

RECURSIVE defrag(_, _, _, _)
RECURSIVE DefragChildren(_, _, _, _, _)

\* table.iter_mut().map(|pte| pte.defrag(level - 1, mpool)): the heap after
\* child k .. PTE_PER_PAGE - 1 and the values returned so far.
DefragChildren(r, table, k, level, rets) ==
    IF k >= PTE_PER_PAGE THEN [st |-> r, rets |-> rets]
    ELSE LET d == defrag(r, table, k, level)
         IN  DefragChildren(d.st, table, k + 1, level, Append(rets, d.ret))

defrag(st0, page, i, level) ==
    LET st == Step(st0, <<"defrag", page, i, level>>)
        pte == st.mem[page][i]
        attrs == arch_mm_pte_attrs(pte, level)
    IN  IF arch_mm_pte_is_block(pte, level) THEN [st |-> st, ret |-> Some(attrs)]
        ELSE IF ~arch_mm_pte_is_table(pte, level) THEN [st |-> st, ret |-> None]
        ELSE
        LET table == arch_mm_table_from_pte(pte, level)
            kids == DefragChildren(st, table, 0, level - 1, <<>>)
            reduced == DefragReduceFrom(kids.rets[1], kids.rets, 2)
        IN  IF reduced = None THEN [st |-> kids.st, ret |-> None]
            ELSE LET children_attrs == reduced[1]
                 IN  IF ~arch_mm_pte_is_present(children_attrs, level - 1)
                        THEN LET w == PtrWrite(MPoolFree(kids.st, table), page, i,
                                               arch_mm_absent_pte(level))
                             IN  [st |-> w,
                                  ret |-> Some(arch_mm_pte_attrs(w.mem[page][i], level))]
                     ELSE IF ~arch_mm_is_block_allowed(level)
                        THEN [st |-> kids.st, ret |-> None]
                     ELSE LET block_address ==
                                  arch_mm_block_from_pte(kids.st.mem[table][0], level - 1)
                              combined_attrs ==
                                  arch_mm_combine_table_entry_attrs(attrs, children_attrs)
                          IN  [st |-> PtrWrite(MPoolFree(kids.st, table), page, i,
                                               arch_mm_block_pte(level, block_address,
                                                                 combined_attrs)),
                               ret |-> Some(combined_attrs)]

(***************************************************************************)
(* PageTable                                                               *)
(***************************************************************************)
RECURSIVE MapRootLoop(_, _, _, _, _, _, _, _)
MapRootLoop(st, first, begins, k, end, attrs, root_level, flags) ==
    IF k > Len(begins) \/ first + k - 1 >= ROOT_TABLE_COUNT \/ st.res # "ok" THEN st
    ELSE MapRootLoop(
            map_level(st, RootTables[first + k - 1], begins[k], end, attrs,
                      root_level - 1, flags),
            first, begins, k + 1, end, attrs, root_level, flags)

map_root(st, begin, end, attrs, root_level, flags) ==
    IF index(begin, root_level) > ROOT_TABLE_COUNT
       THEN [st EXCEPT !.res = "panic"]
       ELSE MapRootLoop(Step(st, <<"map_root", flags, Len(st.log)>>),
                        index(begin, root_level),
                        BlockIter(begin, end, entry_size(root_level)),
                        1, end, attrs, root_level, flags)

\* Variant: the second pass runs without COMMIT.
identity_update_NoCommit(st, begin0, end0, attrs, flags) ==
    LET root_level == MAX_LEVEL + 1
        ptable_end == ROOT_TABLE_COUNT * entry_size(root_level)
        end == Min(round_up_to_page(end0), ptable_end)
        begin == arch_mm_clear_pa(begin0)
        pass1 == map_root(st, begin, end, attrs, root_level, flags)
        pass2 == map_root(pass1, begin, end, attrs, root_level, flags)
    IN  IF pass1.res # "ok" THEN pass1
        ELSE IF pass2.res # "ok" THEN pass2
        ELSE invalidate_tlb(pass2, begin, end)

\* Variant: one pass that allocates and commits as it goes.
identity_update_OnePass(st, begin0, end0, attrs, flags) ==
    LET root_level == MAX_LEVEL + 1
        ptable_end == ROOT_TABLE_COUNT * entry_size(root_level)
        end == Min(round_up_to_page(end0), ptable_end)
        begin == arch_mm_clear_pa(begin0)
        pass == map_root(st, begin, end, attrs, root_level, BitOr(flags, FLAG_COMMIT))
    IN  IF pass.res # "ok" THEN pass
        ELSE invalidate_tlb(pass, begin, end)

\* Variant: the pass with COMMIT runs first.
identity_update_CommitFirst(st, begin0, end0, attrs, flags) ==
    LET root_level == MAX_LEVEL + 1
        ptable_end == ROOT_TABLE_COUNT * entry_size(root_level)
        end == Min(round_up_to_page(end0), ptable_end)
        begin == arch_mm_clear_pa(begin0)
        pass1 == map_root(st, begin, end, attrs, root_level, BitOr(flags, FLAG_COMMIT))
        pass2 == map_root(pass1, begin, end, attrs, root_level, flags)
    IN  IF pass1.res # "ok" THEN pass1
        ELSE IF pass2.res # "ok" THEN pass2
        ELSE invalidate_tlb(pass2, begin, end)

\* Variant: the final invalidation is made only when a descriptor changed.
identity_update_InvalidateChanged(st, begin0, end0, attrs, flags) ==
    LET root_level == MAX_LEVEL + 1
        ptable_end == ROOT_TABLE_COUNT * entry_size(root_level)
        end == Min(round_up_to_page(end0), ptable_end)
        begin == arch_mm_clear_pa(begin0)
        pass1 == map_root(st, begin, end, attrs, root_level, flags)
        pass2 == map_root(pass1, begin, end, attrs, root_level,
                          BitOr(flags, FLAG_COMMIT))
    IN  IF pass1.res # "ok" THEN pass1
        ELSE IF pass2.res # "ok" THEN pass2
        ELSE IF pass2.mem = st.mem THEN pass2
        ELSE invalidate_tlb(pass2, begin, end)

identity_update(st, begin0, end0, attrs, flags) ==
    LET root_level == MAX_LEVEL + 1
        ptable_end == ROOT_TABLE_COUNT * entry_size(root_level)
        end == Min(round_up_to_page(end0), ptable_end)
        begin == arch_mm_clear_pa(begin0)
        pass1 == map_root(st, begin, end, attrs, root_level, flags)
        pass2 == map_root(pass1, begin, end, attrs, root_level,
                          BitOr(flags, FLAG_COMMIT))
    IN  IF pass1.res # "ok" THEN pass1
        ELSE IF pass2.res # "ok" THEN pass2
        ELSE invalidate_tlb(pass2, begin, end)

identity_map(st, begin, end, mode) ==
    identity_update(st, begin, end, mode_to_attrs(mode), 0)

unmap(st, begin, end) ==
    identity_update(st, begin, end,
                    mode_to_attrs(MODE_UNOWNED + MODE_INVALID + MODE_SHARED),
                    FLAG_UNMAP)

get_attrs(m, begin0, end0) ==
    LET max_level == MAX_LEVEL
        root_level == max_level + 1
        root_table_size == entry_size(root_level)
        ptable_end == ROOT_TABLE_COUNT * root_table_size
        begin == round_down_to_page(begin0)
        end == round_up_to_page(end0)
        first == index(begin, root_level)
        begins == BlockIter(begin, end, root_table_size)
        n == Min(Len(begins), ROOT_TABLE_COUNT - first)
    IN  IF ~(begin <= end /\ end <= ptable_end) THEN None
        ELSE opt_reduce([k \in 1 .. n |->
                 get_attrs_level(m, RootTables[first + k - 1], begins[k], end, max_level)])

\* The descriptors get_attrs_level looks at when no entry stops the fold early:
\* <<page, index>>.
RECURSIVE get_attrs_level_reads(_, _, _, _, _)
get_attrs_level_reads(m, page, begin, end, level) ==
    LET first == index(begin, level)
        begins == BlockIter(begin, Min(end, level_end(begin, level)), entry_size(level))
        n == Min(Len(begins), PTE_PER_PAGE - first)
    IN  UNION { { <<page, first + k - 1>> }
                \cup (IF arch_mm_pte_is_table(m[page][first + k - 1], level)
                         THEN get_attrs_level_reads(
                                  m, arch_mm_table_from_pte(m[page][first + k - 1], level),
                                  begins[k], end, level - 1)
                         ELSE {})
                : k \in 1 .. n }

\* The descriptors get_attrs looks at: none when the range is rejected.
get_attrs_reads(m, begin0, end0) ==
    LET root_level == MAX_LEVEL + 1
        root_table_size == entry_size(root_level)
        ptable_end == ROOT_TABLE_COUNT * root_table_size
        begin == round_down_to_page(begin0)
        end == round_up_to_page(end0)
        first == index(begin, root_level)
        begins == BlockIter(begin, end, root_table_size)
        n == Min(Len(begins), ROOT_TABLE_COUNT - first)
    IN  IF ~(begin <= end /\ end <= ptable_end) THEN {}
        ELSE UNION { get_attrs_level_reads(m, RootTables[first + k - 1], begins[k], end,
                                           MAX_LEVEL)
                     : k \in 1 .. n }

get_mode(m, begin, end) ==
    IF get_attrs(m, begin, end) = None THEN None
    ELSE Some(attrs_to_mode(get_attrs(m, begin, end)[1]))

\* The loops of PageTable::defrag: every entry of every root table, in order.
RECURSIVE DefragRootLoop(_, _)
DefragRootLoop(st, n) ==
    IF n >= ROOT_TABLE_COUNT * PTE_PER_PAGE THEN st
    ELSE DefragRootLoop(defrag(st, RootTables[n \div PTE_PER_PAGE], n % PTE_PER_PAGE,
                               MAX_LEVEL).st,
                        n + 1)

table_defrag(st) == DefragRootLoop(st, 0)

(***************************************************************************)
(* The state machine.  A caller calls one operation at a time: an          *)
(* operation runs from a state where no call is being observed             *)
(* (last.op = "idle"), `last` then holds what the call did, and Return     *)
(* hands control back to the caller.                                       *)
(***************************************************************************)
\* The end of the address space the root represents.
PTableEnd == ROOT_TABLE_COUNT * entry_size(MAX_LEVEL + 1)

\* Addresses given to the operations: every page boundary of the root's
\* coverage, and one page beyond it.
Addrs == { k * PAGE_SIZE : k \in 0 .. (PTableEnd \div PAGE_SIZE + 1) }

\* Ranges given to identity_map and unmap: every begin < end over Addrs, an
\* empty range, an inverted one, and two whose begin and end are inside pages.
ShallowRanges ==
    { r \in Addrs \X Addrs : r[1] < r[2] }
        \cup { <<PAGE_SIZE, PAGE_SIZE>>, <<2 * PAGE_SIZE, PAGE_SIZE>>,
               <<PAGE_SIZE \div 2, 2 * PAGE_SIZE + 1>>,
               <<PAGE_SIZE + 1, PAGE_SIZE + 2>> }

\* Ranges given to identity_map and unmap with four levels: one level-1 entry,
\* a page of it, a range over two level-1 entries, and the whole address space.
DeepRanges ==
    { <<0, 2 * PAGE_SIZE>>, <<PAGE_SIZE, 2 * PAGE_SIZE>>,
      <<PAGE_SIZE, 3 * PAGE_SIZE>>, <<0, PTableEnd>> }

Ranges == IF Deep THEN DeepRanges ELSE ShallowRanges

Fuels == 0 .. (IF Deep THEN DeepMaxFuel ELSE MaxFuel)

\* Modes given to identity_map: blocks of these modes are present.
Modes ==
    IF stage = 1 THEN { MODE_R, MODE_R + MODE_W + MODE_X }
                 ELSE { MODE_R, MODE_INVALID + MODE_W }

\* Addresses the queries are asked about: the page boundaries and two
\* addresses inside a page.
QueryAddrs == Addrs \cup { PAGE_SIZE \div 2, 2 * PAGE_SIZE + 1 }

\* Ranges given to get_attrs: every begin <= end over QueryAddrs; inverted
\* ones: page-aligned, within one page, over several pages; and ranges that
\* end at the last address and at the last page boundary.
QueryRanges ==
    IF Deep THEN DeepRanges \cup { <<0, PAGE_SIZE>>, <<PAGE_SIZE \div 2, 2 * PAGE_SIZE + 1>> }
    ELSE { r \in QueryAddrs \X QueryAddrs : r[1] <= r[2] }
            \cup { <<2 * PAGE_SIZE, PAGE_SIZE>>, <<PAGE_SIZE + 2, PAGE_SIZE + 1>>,
                   <<2 * PAGE_SIZE + 1, PAGE_SIZE \div 2>>,
                   <<0, USIZE_MAX>>, <<PAGE_SIZE, USIZE_MAX>>,
                   <<0, round_down_to_page(USIZE_MAX)>> }

Idle == [op |-> "idle", begin |-> 0, end |-> 0, mode |-> 0, again |-> FALSE,
         res |-> "ok", ret |-> None, log |-> <<>>, pre |-> <<>>, prePool |-> {},
         reads |-> {}, steps |-> <<>>]

Start(fuel) ==
    [mem |-> mem, pool |-> pool, fuel |-> fuel, log |-> <<>>, res |-> "ok", steps |-> <<>>]

Finish(r, op, begin, end, mode, again) ==
    /\ mem' = r.mem
    /\ pool' = r.pool
    /\ last' = [op |-> op, begin |-> begin, end |-> end, mode |-> mode,
                again |-> again, res |-> r.res, ret |-> None, log |-> r.log,
                pre |-> mem, prePool |-> pool, reads |-> {}, steps |-> r.steps]
    /\ UNCHANGED <<stage, blockTop, s2inv, maxLevel, root, tables, cpus>>

\* CPUs that call the exported functions at once.
CpuCount == 2
Cpus == 1 .. CpuCount

\* No CPU is inside a function and the lock is free.  A CPU inside a function
\* has the function's name, the stores and pool calls it has still to do, and
\* whether it has written a descriptor.  `raced`: two CPUs have been at work
\* on the table at once; `interleaved`: their writes have alternated.
NoCpus ==
    [lock |-> 0, raced |-> FALSE, interleaved |-> FALSE,
     run |-> [c \in Cpus |-> [op |-> "idle", pending |-> <<>>, wrote |-> FALSE]]]

\* PageTable::new has taken the root tables from the pool and written every
\* descriptor absent.
New ==
    /\ mem = [p \in Heap(IF Deep THEN DeepPoolPages ELSE PoolPages)
                 |-> [i \in Idx |-> arch_mm_absent_pte(MAX_LEVEL)]]
    /\ root = HeapBase
    /\ pool = Pages \ { RootTables[r] : r \in 0 .. (ROOT_TABLE_COUNT - 1) }
    /\ stage \in {1, 2}
    /\ tables = { <<root, stage>> }
    /\ cpus = NoCpus
    /\ s2inv = FALSE
    /\ last = Idle

Init ==
    /\ maxLevel = ShallowMaxLevel
    /\ blockTop \in 0 .. MAX_LEVEL
    /\ New

\* Four levels of tables; blocks are allowed at level 0 only, up to level 1,
\* or at every level.
InitDeep ==
    /\ maxLevel = DeepMaxLevel
    /\ blockTop \in {0, 1, DeepMaxLevel}
    /\ New

IdentityMap ==
    /\ last.op = "idle"
    /\ \E r \in Ranges, mode \in Modes, fuel \in Fuels :
          Finish(identity_map(Start(fuel), r[1], r[2], mode),
                 "identity_map", r[1], r[2], mode, FALSE)

\* The caller repeats the identity_map call that has just succeeded.
IdentityMapAgain ==
    /\ last.op = "identity_map" /\ last.res = "ok" /\ ~last.again
    /\ \E fuel \in Fuels :
          Finish(identity_map(Start(fuel), last.begin, last.end, last.mode),
                 "identity_map", last.begin, last.end, last.mode, TRUE)

Unmap ==
    /\ last.op = "idle"
    /\ \E r \in Ranges, fuel \in Fuels :
          Finish(unmap(Start(fuel), r[1], r[2]), "unmap", r[1], r[2], 0, FALSE)

Defrag ==
    /\ last.op = "idle"
    /\ Finish(table_defrag(Start(0)), "defrag", 0, 0, 0, FALSE)

\* PageTable::get_attrs on the table as it stands, in a build with overflow
\* checks or in one without.
GetAttrs ==
    /\ last.op = "idle"
    /\ \E r \in QueryRanges, overflow_checks \in BOOLEAN :
          last' = IF overflow_checks /\ RoundUpOverflows(r[2])
                     THEN [Idle EXCEPT !.op = "get_attrs", !.begin = r[1], !.end = r[2],
                                       !.res = "panic", !.pre = mem]
                     ELSE [Idle EXCEPT !.op = "get_attrs", !.begin = r[1], !.end = r[2],
                                       !.ret = get_attrs(mem, r[1], r[2]), !.pre = mem,
                                       !.reads = get_attrs_reads(mem, r[1], r[2])]
    /\ UNCHANGED <<mem, pool, stage, blockTop, s2inv, maxLevel, root, tables, cpus>>

\* mm_vm_enable_invalidation
EnableInvalidation ==
    /\ last.op = "idle"
    /\ s2inv' = TRUE
    /\ UNCHANGED <<mem, pool, stage, blockTop, maxLevel, root, tables, cpus, last>>

Return ==
    /\ last.op # "idle"
    /\ last.res # "panic"
    /\ last' = Idle
    /\ UNCHANGED <<mem, pool, stage, blockTop, s2inv, maxLevel, root, tables, cpus>>

Next ==
    \/ IdentityMap \/ IdentityMapAgain \/ Unmap \/ Defrag \/ GetAttrs
    \/ EnableInvalidation \/ Return

Spec == Init /\ [][Next]_vars

SpecDeep == InitDeep /\ [][Next]_vars

(***************************************************************************)
(* The exported interface.  The hypervisor's page table (stage 1,          *)
(* HYPERVISOR_PAGE_TABLE) and the VMs' page tables (stage 2) take their    *)
(* pages from one pool.  A caller passes the page table `t` it addresses;  *)
(* `root` and `stage` hold that choice.                                    *)
(***************************************************************************)
\* Pages the pool is given, less one.
EnginePoolPages == 3
\* Largest number of pool.alloc calls the pool may grant within one call.
EngineMaxFuel == 2
\* Page tables that exist at once.
MaxTables == 2

EngineFuels == 0 .. EngineMaxFuel

\* The image's sections (layout_*_begin, layout_*_end).
layout_text_begin == 0
layout_text_end == PAGE_SIZE
layout_rodata_begin == PAGE_SIZE
layout_rodata_end == 2 * PAGE_SIZE
layout_data_begin == 2 * PAGE_SIZE
layout_data_end == 3 * PAGE_SIZE

\* Ranges given to the exported mapping functions.
EngineRanges ==
    { <<0, PAGE_SIZE>>, <<2 * PAGE_SIZE, PTableEnd>> }

\* PageTable::new: the root tables come from the pool, every descriptor is
\* written absent.  The result's `root` is the new table's root, 0 for None.
RECURSIVE NewEntries(_, _, _)
NewEntries(st, page, i) ==
    IF i >= PTE_PER_PAGE THEN st
    ELSE NewEntries(PtrWrite(st, page, i, arch_mm_absent_pte(MAX_LEVEL)), page, i + 1)

PageTableNew(st) ==
    IF MPoolCanAlloc(st)
       THEN [st |-> NewEntries(MPoolAlloc(st), MPoolAllocPage(st), 0),
             root |-> MPoolAllocPage(st)]
       ELSE [st |-> [st EXCEPT !.res = "none"], root |-> 0]

\* PageTable::drop: free under every descriptor of the root tables, then
\* return the root tables.
RECURSIVE DropRootLoop(_, _)
DropRootLoop(st, n) ==
    IF n >= ROOT_TABLE_COUNT * PTE_PER_PAGE THEN st
    ELSE DropRootLoop(free(st, st.mem[RootTables[n \div PTE_PER_PAGE]][n % PTE_PER_PAGE],
                           MAX_LEVEL),
                      n + 1)

RECURSIVE FreeRootPages(_, _)
FreeRootPages(st, r) ==
    IF r >= ROOT_TABLE_COUNT THEN st
    ELSE FreeRootPages(MPoolFree(st, RootTables[r]), r + 1)

table_drop(st) == FreeRootPages(DropRootLoop(st, 0), 0)

\* A call whose Option result the caller ignores: the next call runs.
Ignored(st) == IF st.res = "none" THEN [st EXCEPT !.res = "ok"] ELSE st

\* The exported functions: the record the call leaves and the value it returns.
\* Option::is_some of a result.
IsSome(r) == [st |-> r, ret |-> r.res = "ok"]

\* .map(|_| begin as *mut _).unwrap_or_else(|| ptr::null_mut())
BeginOrNull(r, begin) == [st |-> r, ret |-> IF r.res = "ok" THEN begin ELSE 0]

mm_vm_identity_map(st, begin, end, mode) == IsSome(identity_map(st, begin, end, mode))

mm_vm_unmap(st, begin, end) ==
    IsSome(identity_update(st, begin, end,
               arch_mm_mode_to_stage2_attrs(MODE_UNOWNED + MODE_INVALID + MODE_SHARED),
               FLAG_UNMAP))

\* The image's sections, in the order mm_vm_unmap_hypervisor and mm_init go
\* through them, with the modes mm_init maps them with.
Sections ==
    << <<layout_text_begin, layout_text_end, MODE_X>>,
       <<layout_rodata_begin, layout_rodata_end, MODE_R>>,
       <<layout_data_begin, layout_data_end, MODE_R + MODE_W>> >>

\* some_or_return!(t.unmap(...), false) for section k and the ones after it.
RECURSIVE UnmapSections(_, _)
UnmapSections(st, k) ==
    IF k > Len(Sections) \/ st.res # "ok" THEN st
    ELSE UnmapSections(unmap(st, Sections[k][1], Sections[k][2]), k + 1)

mm_vm_unmap_hypervisor(st) == IsSome(UnmapSections(st, 1))

\* HYPERVISOR_PAGE_TABLE.lock() ... and the guard's release at the end of
\* the statement.
Lock(st) == Log(st, <<"lock">>)
Unlock(st) == Log(st, <<"unlock">>)

mm_identity_map(st, begin, end, mode) ==
    BeginOrNull(Unlock(identity_map(Lock(st), begin, end, mode)), begin)

mm_unmap(st, begin, end) == IsSome(Unlock(unmap(Lock(st), begin, end)))

mm_defrag(st) == [st |-> Unlock(table_defrag(Lock(st))), ret |-> TRUE]

\* mm_init after PageTable::new: the three sections are mapped, the results
\* of identity_map are not looked at, and arch_mm_init's result is returned.
RECURSIVE MapSections(_, _)
MapSections(st, k) ==
    IF k > Len(Sections) \/ st.res = "panic" THEN st
    ELSE MapSections(Ignored(identity_map(st, Sections[k][1], Sections[k][2],
                                          Sections[k][3])),
                     k + 1)

mm_init_map(st, arch_ok) == [st |-> MapSections(st, 1), ret |-> arch_ok]

\* The call returns to its caller: what it did and what it returned.
EngineFinish(r, op, begin, end, mode) ==
    /\ mem' = r.st.mem
    /\ pool' = r.st.pool
    /\ last' = [op |-> op, begin |-> begin, end |-> end, mode |-> mode,
                again |-> FALSE, res |-> r.st.res, ret |-> r.ret, log |-> r.st.log,
                pre |-> mem, prePool |-> pool, reads |-> {}, steps |-> r.st.steps]

\* Before mm_init: the pool holds every page and no page table exists.
InitEngine ==
    /\ maxLevel = ShallowMaxLevel
    /\ blockTop \in 0 .. MAX_LEVEL
    /\ mem = [p \in Heap(EnginePoolPages) |-> [i \in Idx |-> 0]]
    /\ pool = Pages
    /\ root = 0
    /\ stage = 1
    /\ tables = {}
    /\ cpus = NoCpus
    /\ s2inv = FALSE
    /\ last = Idle

HypervisorTable == root # 0 /\ stage = 1 /\ <<root, 1>> \in tables
VmTable == root # 0 /\ stage = 2 /\ <<root, 2>> \in tables

\* mm_init up to the write of HYPERVISOR_PAGE_TABLE; called once.
MmInit ==
    /\ last.op = "idle"
    /\ \A t \in tables : t[2] # 1
    /\ Cardinality(tables) < MaxTables
    /\ \E fuel \in EngineFuels :
          \E r \in { PageTableNew(Start(fuel)) } :
              /\ EngineFinish([st |-> r.st, ret |-> FALSE],
                              IF r.root = 0 THEN "mm_init" ELSE "mm_init_new", 0, 0, 0)
              /\ IF r.root = 0
                    THEN UNCHANGED <<root, stage, tables>>
                    ELSE /\ root' = r.root
                         /\ stage' = 1
                         /\ tables' = tables \cup { <<r.root, 1>> }
    /\ UNCHANGED <<blockTop, s2inv, maxLevel, cpus>>

\* mm_init from plat_console_mm_init on (the console driver's own mappings
\* are not modelled); `fuel` is what the pool grants from here on.
MmInitMap ==
    /\ last.op = "mm_init_new"
    /\ \E fuel \in EngineFuels, arch_ok \in BOOLEAN :
          \E r \in { mm_init_map([Start(fuel) EXCEPT !.log = last.log], arch_ok) } :
              /\ mem' = r.st.mem
              /\ pool' = r.st.pool
              /\ last' = [last EXCEPT !.op = "mm_init", !.res = r.st.res,
                                      !.ret = r.ret, !.log = r.st.log,
                                      !.steps = r.st.steps]
    /\ UNCHANGED <<stage, blockTop, s2inv, maxLevel, root, tables, cpus>>

MmIdentityMap ==
    /\ last.op = "idle" /\ HypervisorTable
    /\ \E r \in EngineRanges, mode \in Modes, fuel \in EngineFuels :
          \E x \in { mm_identity_map(Start(fuel), r[1], r[2], mode) } :
              EngineFinish(x, "mm_identity_map", r[1], r[2], mode)
    /\ UNCHANGED <<stage, blockTop, s2inv, maxLevel, root, tables, cpus>>

MmUnmap ==
    /\ last.op = "idle" /\ HypervisorTable
    /\ \E r \in EngineRanges, fuel \in EngineFuels :
          \E x \in { mm_unmap(Start(fuel), r[1], r[2]) } :
              EngineFinish(x, "mm_unmap", r[1], r[2], 0)
    /\ UNCHANGED <<stage, blockTop, s2inv, maxLevel, root, tables, cpus>>

MmDefrag ==
    /\ last.op = "idle" /\ HypervisorTable
    /\ \E x \in { mm_defrag(Start(0)) } : EngineFinish(x, "mm_defrag", 0, 0, 0)
    /\ UNCHANGED <<stage, blockTop, s2inv, maxLevel, root, tables, cpus>>

\* mm_vm_init: on success the caller's `t` is the new table.
VmInit ==
    /\ last.op = "idle"
    /\ Cardinality(tables) < MaxTables
    /\ \E fuel \in EngineFuels :
          \E r \in { PageTableNew(Start(fuel)) } :
              /\ EngineFinish([st |-> r.st, ret |-> r.root # 0], "mm_vm_init", 0, 0, 0)
              /\ IF r.root = 0
                    THEN UNCHANGED <<root, stage, tables>>
                    ELSE /\ root' = r.root
                         /\ stage' = 2
                         /\ tables' = tables \cup { <<r.root, 2>> }
    /\ UNCHANGED <<blockTop, s2inv, maxLevel, cpus>>

\* mm_vm_fini: the table is dropped and the caller is left without one.
VmFini ==
    /\ last.op = "idle" /\ VmTable
    /\ \E x \in { table_drop(Start(0)) } :
          EngineFinish([st |-> x, ret |-> TRUE], "mm_vm_fini", 0, 0, 0)
    /\ root' = 0
    /\ tables' = tables \ { <<root, 2>> }
    /\ UNCHANGED <<stage, blockTop, s2inv, maxLevel, cpus>>

VmIdentityMap ==
    /\ last.op = "idle" /\ VmTable
    /\ \E r \in EngineRanges, mode \in Modes, fuel \in EngineFuels :
          \E x \in { mm_vm_identity_map(Start(fuel), r[1], r[2], mode) } :
              EngineFinish(x, "mm_vm_identity_map", r[1], r[2], mode)
    /\ UNCHANGED <<stage, blockTop, s2inv, maxLevel, root, tables, cpus>>

VmUnmap ==
    /\ last.op = "idle" /\ VmTable
    /\ \E r \in EngineRanges, fuel \in EngineFuels :
          \E x \in { mm_vm_unmap(Start(fuel), r[1], r[2]) } :
              EngineFinish(x, "mm_vm_unmap", r[1], r[2], 0)
    /\ UNCHANGED <<stage, blockTop, s2inv, maxLevel, root, tables, cpus>>

VmUnmapHypervisor ==
    /\ last.op = "idle" /\ VmTable
    /\ \E fuel \in EngineFuels :
          \E x \in { mm_vm_unmap_hypervisor(Start(fuel)) } :
              EngineFinish(x, "mm_vm_unmap_hypervisor", 0, 0, 0)
    /\ UNCHANGED <<stage, blockTop, s2inv, maxLevel, root, tables, cpus>>

VmDefrag ==
    /\ last.op = "idle" /\ VmTable
    /\ \E x \in { table_defrag(Start(0)) } :
          EngineFinish([st |-> x, ret |-> TRUE], "mm_vm_defrag", 0, 0, 0)
    /\ UNCHANGED <<stage, blockTop, s2inv, maxLevel, root, tables, cpus>>

\* The caller turns to another page table.
Select ==
    /\ last.op = "idle"
    /\ \E t \in tables :
          /\ t[1] # root
          /\ root' = t[1]
          /\ stage' = t[2]
    /\ UNCHANGED <<mem, pool, blockTop, s2inv, maxLevel, tables, cpus, last>>

EngineReturn ==
    /\ last.op \notin {"idle", "mm_init_new"}
    /\ last.res # "panic"
    /\ last' = Idle
    /\ UNCHANGED <<mem, pool, stage, blockTop, s2inv, maxLevel, root, tables, cpus>>

NextEngine ==
    \/ MmInit \/ MmInitMap \/ MmIdentityMap \/ MmUnmap \/ MmDefrag
    \/ VmInit \/ VmFini \/ VmIdentityMap \/ VmUnmap \/ VmUnmapHypervisor \/ VmDefrag
    \/ Select \/ EngineReturn

SpecEngine == InitEngine /\ [][NextEngine]_vars

(***************************************************************************)
(* Several CPUs in the functions of the hypervisor's page table.  A call   *)
(* that takes HYPERVISOR_PAGE_TABLE's lock waits until the lock is free;   *)
(* what the call then does to the heap and the pool is done one store or   *)
(* pool call at a time, so that the steps of two CPUs can interleave.      *)
(***************************************************************************)
\* The stores, pool calls and lock release of a call, in program order.
Effects(log) ==
    SelectSeq(log, LAMBDA e : e[1] \in {"write", "alloc", "free", "unlock"})

\* Another CPU has stores to do.
Busy(c) == \E d \in Cpus \ {c} : cpus.run[d].pending # <<>>

\* A call starts.  Once two calls have raced the program's behaviour is
\* undefined: the calls under way are followed to their end, no new call is.
Running(c, op, log) ==
    [cpus EXCEPT !.run[c] = [op |-> op, pending |-> Effects(log), wrote |-> FALSE],
                 !.raced = Busy(c)]

InitCpus ==
    /\ maxLevel = ShallowMaxLevel
    /\ blockTop \in 0 .. MAX_LEVEL
    /\ mem = [p \in Heap(PoolPages) |-> [i \in Idx |-> 0]]
    /\ pool = Pages
    /\ root = 0
    /\ stage = 1
    /\ tables = {}
    /\ cpus = NoCpus
    /\ s2inv = FALSE
    /\ last = Idle

\* mm_init up to the write of HYPERVISOR_PAGE_TABLE (get_mut_unchecked: the
\* lock is not taken).
CpuMmInit ==
    \E c \in Cpus, fuel \in 0 .. 1 :
        /\ cpus.run[c].op = "idle"
        /\ root = 0
        /\ \E r \in { PageTableNew(Start(fuel)) } :
              /\ mem' = r.st.mem
              /\ pool' = r.st.pool
              /\ IF r.root = 0
                    THEN UNCHANGED <<root, tables, cpus>>
                    ELSE /\ root' = r.root
                         /\ tables' = { <<r.root, 1>> }
                         /\ cpus' = [cpus EXCEPT !.run[c].op = "mm_init_new"]
        /\ UNCHANGED <<stage, blockTop, s2inv, maxLevel, last>>

\* mm_init from there on: the three sections are mapped.
CpuMmInitMap ==
    \E c \in Cpus, fuel \in {EngineMaxFuel} :
        /\ cpus.run[c].op = "mm_init_new"
        /\ cpus' = Running(c, "mm_init", MapSections(Start(fuel), 1).log)
        /\ UNCHANGED <<mem, pool, stage, blockTop, s2inv, maxLevel, root, tables, last>>

\* mm_identity_map, once HYPERVISOR_PAGE_TABLE.lock() has returned.
CpuMmIdentityMap ==
    \E c \in Cpus, r \in EngineRanges, mode \in Modes, fuel \in {EngineMaxFuel} :
        /\ cpus.run[c].op = "idle" /\ HypervisorTable /\ ~cpus.raced
        /\ cpus.lock = 0
        /\ cpus' = [Running(c, "mm_identity_map",
                            mm_identity_map(Start(fuel), r[1], r[2], mode).st.log)
                       EXCEPT !.lock = c]
        /\ UNCHANGED <<mem, pool, stage, blockTop, s2inv, maxLevel, root, tables, last>>

CpuMmUnmap ==
    \E c \in Cpus, r \in EngineRanges, fuel \in {EngineMaxFuel} :
        /\ cpus.run[c].op = "idle" /\ HypervisorTable /\ ~cpus.raced
        /\ cpus.lock = 0
        /\ cpus' = [Running(c, "mm_unmap", mm_unmap(Start(fuel), r[1], r[2]).st.log)
                       EXCEPT !.lock = c]
        /\ UNCHANGED <<mem, pool, stage, blockTop, s2inv, maxLevel, root, tables, last>>

CpuMmDefrag ==
    \E c \in Cpus :
        /\ cpus.run[c].op = "idle" /\ HypervisorTable /\ ~cpus.raced
        /\ cpus.lock = 0
        /\ cpus' = [Running(c, "mm_defrag", mm_defrag(Start(0)).st.log) EXCEPT !.lock = c]
        /\ UNCHANGED <<mem, pool, stage, blockTop, s2inv, maxLevel, root, tables, last>>

\* Another CPU has written a descriptor and has one still to write.
MidWrites(c) ==
    \E d \in Cpus \ {c} :
        /\ cpus.run[d].wrote
        /\ \E k \in 1 .. Len(cpus.run[d].pending) : cpus.run[d].pending[k][1] = "write"

\* The next store or pool call of a CPU; the lock's release is its last step.
CpuStep ==
    \E c \in Cpus :
        /\ cpus.run[c].pending # <<>>
        /\ LET e == Head(cpus.run[c].pending)
               rest == [cpus EXCEPT !.run[c].pending = Tail(@)]
           IN  /\ mem' = IF e[1] = "write" THEN [mem EXCEPT ![e[2]][e[3]] = e[4]]
                         ELSE IF e[1] = "free" THEN [mem EXCEPT ![e[2]] = [i \in Idx |-> 0]]
                         ELSE mem
               /\ pool' = IF e[1] = "alloc" THEN pool \ {e[2]}
                          ELSE IF e[1] = "free" THEN pool \cup {e[2]}
                          ELSE pool
               /\ cpus' = IF e[1] = "write"
                             THEN [rest EXCEPT !.run[c].wrote = TRUE,
                                               !.interleaved = @ \/ MidWrites(c)]
                          ELSE IF e[1] = "unlock" THEN [rest EXCEPT !.lock = 0]
                          ELSE rest
        /\ UNCHANGED <<stage, blockTop, s2inv, maxLevel, root, tables, last>>

\* The function returns.
CpuReturn ==
    \E c \in Cpus :
        /\ cpus.run[c].op \notin {"idle", "mm_init_new"}
        /\ cpus.run[c].pending = <<>>
        /\ cpus' = [cpus EXCEPT !.run[c] = [op |-> "idle", pending |-> <<>>,
                                            wrote |-> FALSE]]
        /\ UNCHANGED <<mem, pool, stage, blockTop, s2inv, maxLevel, root, tables, last>>

NextCpus ==
    \/ CpuMmInit \/ CpuMmInitMap \/ CpuMmIdentityMap \/ CpuMmUnmap \/ CpuMmDefrag
    \/ CpuStep \/ CpuReturn

SpecCpus == InitCpus /\ [][NextCpus]_vars

(***************************************************************************)
(* Vocabulary of the properties.                                           *)
(***************************************************************************)
\* The pages of the address space the root represents.
PageAddrs == { k * PAGE_SIZE : k \in 0 .. (PTableEnd \div PAGE_SIZE - 1) }

\* The pages that [begin, end) touches.
PagesIn(begin, end) ==
    { p \in PageAddrs : round_down_to_page(begin) <= p /\ p < round_up_to_page(end) }

\* The translation walk of the hardware for one address: the attributes of the
\* leaf descriptor that covers it.
RECURSIVE WalkLevel(_, _, _, _)
WalkLevel(m, page, addr, level) ==
    LET pte == m[page][(addr \div entry_size(level)) % PTE_PER_PAGE]
    IN  IF arch_mm_pte_is_table(pte, level)
           THEN WalkLevel(m, arch_mm_table_from_pte(pte, level), addr, level - 1)
           ELSE arch_mm_pte_attrs(pte, level)

Walk(m, addr) ==
    WalkLevel(m, RootTables[addr \div entry_size(MAX_LEVEL + 1)], addr, MAX_LEVEL)

LogIndices(kind) == { k \in 1 .. Len(last.log) : last.log[k][1] = kind }

Updated == last.op \in {"identity_map", "unmap"}

UnmappedMode == MODE_UNOWNED + MODE_INVALID + MODE_SHARED

\* The heap PageTable::new leaves.
FreshMem == [p \in Pages |-> [i \in Idx |-> arch_mm_absent_pte(MAX_LEVEL)]]

(***************************************************************************)
(* C1  Map postcondition.  After a successful identity_map(begin, end, M)  *)
(* with page-aligned begin < end within the root's coverage, on any        *)
(* reachable table, get_attrs(begin, end) = Some(mode_to_attrs(M)), and    *)
(* on stage 2 get_mode(begin, end) = Some(M).  M ranges over Modes, the    *)
(* modes whose blocks are present.                                         *)
(***************************************************************************)
C1_MapPostcondition ==
    (/\ last.op = "identity_map" /\ last.res = "ok"
     /\ last.begin < last.end /\ last.end <= PTableEnd)
    => /\ get_attrs(mem, last.begin, last.end) = Some(mode_to_attrs(last.mode))
       /\ stage = 2 => get_mode(mem, last.begin, last.end) = Some(last.mode)

\* A stage-2 map over part of two entries that had other attributes and took
\* a page from the pool.
C1_Witness ==
    /\ last.op = "identity_map" /\ last.res = "ok" /\ ~last.again
    /\ stage = 2
    /\ last.begin = PAGE_SIZE /\ last.end = 3 * PAGE_SIZE
    /\ LogIndices("alloc") # {}
    /\ \A p \in PagesIn(last.begin, last.end) :
          Walk(last.pre, p) # mode_to_attrs(last.mode)
    /\ get_mode(mem, last.begin, last.end) = Some(last.mode)

BreakBeforeMakeAt(k, base) ==
    LET ev == last.log[k]
        page == ev[2]
        i == ev[3]
        level == ev[7]
        new == IF ArchInvalidates THEN k + 4 ELSE k + 3
    IN  IF arch_mm_pte_is_valid(ev[4], level) /\ arch_mm_pte_is_valid(ev[5], level)
           THEN /\ new <= Len(last.log)
                /\ last.log[k + 1] = <<"write", page, i, arch_mm_absent_pte(level)>>
                /\ last.log[k + 2] = <<"invalidate_tlb", base, base + entry_size(level)>>
                /\ ArchInvalidates =>
                      last.log[k + 3]
                          = <<"arch_invalidate", stage, base, base + entry_size(level)>>
                /\ last.log[new] = <<"write", page, i, ev[5]>>
           ELSE /\ k + 1 <= Len(last.log)
                /\ last.log[k + 1] = <<"write", page, i, ev[5]>>

C3_BreakBeforeMake ==
    \A k \in LogIndices("replace") :
        BreakBeforeMakeAt(k, last.log[k][6] - (last.log[k][6] % entry_size(last.log[k][7])))

\* What the code does: the range starts at the address replace was given.
C3_BreakBeforeMakeFromBegin ==
    \A k \in LogIndices("replace") : BreakBeforeMakeAt(k, last.log[k][6])

QueryEqualityAt ==
    LET ps == PagesIn(last.begin, last.end)
    IN  /\ last.ret = None <=> \E p \in ps, q \in ps : Walk(mem, p) # Walk(mem, q)
        /\ last.ret # None => \A p \in ps : Walk(mem, p) = last.ret[1]
        /\ stage = 2 =>
              get_mode(mem, last.begin, last.end)
                  = (IF last.ret = None THEN None
                     ELSE Some(arch_mm_stage2_attrs_to_mode(last.ret[1])))

C6_QueryEqualityAnyRange ==
    (last.op = "get_attrs" /\ last.begin <= last.end /\ last.end <= PTableEnd)
    => QueryEqualityAt

(***************************************************************************)
(* C6 (amended)  For every b < e within the root's coverage, get_attrs     *)
(* (and get_mode) is Some(a) exactly when every page [b, e) touches has    *)
(* attributes a and fails exactly when two of them differ; for an empty    *)
(* range (b = e on a page boundary) it fails although no two pages differ. *)
(***************************************************************************)
C6_QueryEquality ==
    /\ (last.op = "get_attrs" /\ last.begin < last.end /\ last.end <= PTableEnd)
       => QueryEqualityAt
    /\ (last.op = "get_attrs" /\ last.begin = last.end /\ last.begin % PAGE_SIZE = 0)
       => last.ret = None

\* Page 0 and page 1 are mapped with the two modes of the stage: each page's
\* query succeeds and the query over both, asked from inside page 0 to inside
\* page 2, fails.
C6_Witness ==
    /\ last.op = "get_attrs" /\ stage = 2
    /\ last.begin = PAGE_SIZE \div 2 /\ last.end = 2 * PAGE_SIZE + 1
    /\ last.ret = None
    /\ get_mode(mem, 0, PAGE_SIZE) = Some(MODE_R)
    /\ get_mode(mem, PAGE_SIZE, 2 * PAGE_SIZE) = Some(MODE_INVALID + MODE_W)
    /\ get_mode(mem, 0, 2 * PAGE_SIZE) = None

RepeatedMapOfFirstPage ==
    /\ last.op = "identity_map" /\ last.again
    /\ last.begin = 0 /\ last.end = PAGE_SIZE /\ last.mode = MODE_R

C8_RepeatedMapNoOp ==
    RepeatedMapOfFirstPage
    => /\ LogIndices("alloc") = {}
       /\ LogIndices("free") = {}
       /\ LogIndices("arch_invalidate") = {}

(***************************************************************************)
(* C8 (amended)  The second of two identical identity_map(0, PAGE_SIZE, R) *)
(* calls performs no pool allocation or free, no store and no              *)
(* break-before-make; it only makes the final invalidate_tlb call of       *)
(* identity_update for [0, PAGE_SIZE), which invalidates the TLB on stage  *)
(* 1, and on stage 2 exactly when stage-2 invalidation is enabled.         *)
(***************************************************************************)
C8_RepeatedMapOnlyFinalInvalidation ==
    RepeatedMapOfFirstPage
    => last.log = IF stage = 1 \/ s2inv
                     THEN << <<"invalidate_tlb", 0, PAGE_SIZE>>,
                             <<"arch_invalidate", stage, 0, PAGE_SIZE>> >>
                     ELSE << <<"invalidate_tlb", 0, PAGE_SIZE>> >>

C8_Witness ==
    /\ RepeatedMapOfFirstPage
    /\ stage = 2 /\ s2inv
    /\ LogIndices("arch_invalidate") # {}

RECURSIVE UniformBlocks(_, _, _)
UniformBlocks(m, pte, level) ==
    IF arch_mm_pte_is_table(pte, level)
       THEN LET t == m[arch_mm_table_from_pte(pte, level)]
                kids == [k \in Idx |-> UniformBlocks(m, t[k], level - 1)]
            IN  IF \A k \in Idx : kids[k] # None /\ kids[k] = kids[0]
                   THEN kids[0] ELSE None
    ELSE IF arch_mm_pte_is_block(pte, level) THEN Some(arch_mm_pte_attrs(pte, level))
    ELSE None

\* The slots <<page, index, level>> of the tree under a table.
RECURSIVE SlotsUnder(_, _, _)
SlotsUnder(m, page, level) ==
    UNION { {<<page, i, level>>}
            \cup (IF arch_mm_pte_is_table(m[page][i], level)
                     THEN SlotsUnder(m, arch_mm_table_from_pte(m[page][i], level), level - 1)
                     ELSE {})
            : i \in Idx }

Slots(m) == UNION { SlotsUnder(m, RootTables[r], MAX_LEVEL) : r \in 0 .. (ROOT_TABLE_COUNT - 1) }

\* The pages of the tables under a descriptor.
TablePagesUnder(m, pte, level) ==
    IF arch_mm_pte_is_table(pte, level)
       THEN {arch_mm_table_from_pte(pte, level)}
            \cup { s[1] : s \in SlotsUnder(m, arch_mm_table_from_pte(pte, level), level - 1) }
       ELSE {}

Mergeable(m, s) ==
    /\ arch_mm_pte_is_table(m[s[1]][s[2]], s[3])
    /\ arch_mm_is_block_allowed(s[3])
    /\ UniformBlocks(m, m[s[1]][s[2]], s[3]) # None

C10_DefragMinimality ==
    last.op = "defrag"
    => /\ \A s \in Slots(mem) : ~Mergeable(mem, s)
       /\ \A s \in Slots(last.pre) :
             (s[3] = MAX_LEVEL /\ Mergeable(last.pre, s))
             => /\ arch_mm_pte_is_block(mem[s[1]][s[2]], s[3])
                /\ Some(arch_mm_pte_attrs(mem[s[1]][s[2]], s[3]))
                      = UniformBlocks(last.pre, last.pre[s[1]][s[2]], s[3])
                /\ TablePagesUnder(last.pre, last.pre[s[1]][s[2]], s[3]) \subseteq pool

\* The table of a split block whose pages all carry one mode again is merged
\* back into the block and its page returned to the pool.
C10_Witness ==
    /\ last.op = "defrag"
    /\ Mergeable(last.pre, <<RootTables[0], 0, MAX_LEVEL>>)
    /\ arch_mm_pte_is_block(mem[RootTables[0]][0], MAX_LEVEL)
    /\ get_attrs(mem, 0, entry_size(MAX_LEVEL)) = Some(mode_to_attrs(MODE_R))
    /\ LogIndices("free") # {}
    /\ pool = Pages \ {RootTables[0]}

(***************************************************************************)
(* C11  Identity and alignment.  After any sequence of identity_map,       *)
(* unmap and defrag, every block descriptor at level L in the slot that    *)
(* covers address V has output address V rounded down to entry_size(L);    *)
(* and when populate_table splits a block, the child blocks it writes      *)
(* cover the block's range, entry_size(L - 1) apart, with the block's      *)
(* attributes.                                                             *)
(***************************************************************************)
\* The block descriptors under a table whose first slot covers `base`:
\* <<level, address the slot covers, descriptor>>.
RECURSIVE BlocksUnder(_, _, _, _)
BlocksUnder(m, page, base, level) ==
    UNION { LET pte == m[page][i]
                covers == base + i * entry_size(level)
            IN  IF arch_mm_pte_is_table(pte, level)
                   THEN BlocksUnder(m, arch_mm_table_from_pte(pte, level), covers, level - 1)
                ELSE IF arch_mm_pte_is_block(pte, level) THEN {<<level, covers, pte>>}
                ELSE {}
            : i \in Idx }

Blocks(m) ==
    UNION { BlocksUnder(m, RootTables[r], r * entry_size(MAX_LEVEL + 1), MAX_LEVEL)
            : r \in 0 .. (ROOT_TABLE_COUNT - 1) }

\* The replace logged at k puts a table in the place of a block.
IsSplit(k) ==
    /\ last.log[k][1] = "replace"
    /\ arch_mm_pte_is_block(last.log[k][4], last.log[k][7])
    /\ arch_mm_pte_is_table(last.log[k][5], last.log[k][7])

C11_IdentityAlignment ==
    /\ \A b \in Blocks(mem) :
          /\ arch_mm_block_from_pte(b[3], b[1]) = b[2]
          /\ b[2] % entry_size(b[1]) = 0
    /\ \A k \in LogIndices("replace") :
          IsSplit(k) =>
              LET old == last.log[k][4]
                  level == last.log[k][7]
                  table == arch_mm_table_from_pte(last.log[k][5], level)
              IN  \A c \in Idx :
                      \E j \in 1 .. (k - 1) :
                          last.log[j]
                              = <<"write", table, c,
                                  arch_mm_block_pte(
                                      level - 1,
                                      arch_mm_block_from_pte(old, level)
                                          + c * entry_size(level - 1),
                                      arch_mm_pte_attrs(old, level))>>

\* A block above level 0, not the first of its table, has been split, and a
\* block above level 0 is in place beside it.
C11_Witness ==
    /\ \E k \in LogIndices("replace") :
          IsSplit(k) /\ arch_mm_block_from_pte(last.log[k][4], last.log[k][7]) # 0
    /\ \E b \in Blocks(mem) : b[1] > 0
    /\ \E b \in Blocks(mem) : b[1] = 0 /\ b[2] # 0

(***************************************************************************)
(* C12  Leaf level.  After any sequence of identity_map, unmap and defrag  *)
(* calls, also with begin and end inside pages, every level-0 descriptor   *)
(* is absent or a block and points at no table, populate_table is never    *)
(* called at level 0 (its `level - 1` never underflows, with or without a  *)
(* free page in the pool), and above level 0 a present descriptor that is  *)
(* not a table sits only at a level where blocks are allowed.  (The query's *)
(* own arithmetic is the subject of C17.)                                  *)
(***************************************************************************)
C12_LeafLevel ==
    /\ last.op # "get_attrs" => last.res # "panic"
    /\ \A k \in LogIndices("dlog") : last.log[k][2] > 0
    /\ \A k \in LogIndices("replace") : last.log[k][7] > 0 \/ last.log[k][5] \notin Pages
    /\ \A s \in Slots(mem) :
          LET pte == mem[s[1]][s[2]]
          IN  /\ s[3] = 0 =>
                    /\ pte = arch_mm_absent_pte(0) \/ arch_mm_pte_is_block(pte, 0)
                    /\ arch_mm_block_from_pte(pte, 0) \notin Pages
              /\ (s[3] > 0 /\ arch_mm_pte_is_present(pte, s[3])
                           /\ ~arch_mm_pte_is_table(pte, s[3]))
                 => arch_mm_is_block_allowed(s[3])

\* A range that begins and ends inside pages has been mapped where blocks are
\* allowed at level 0 only: its three pages are level-0 blocks.
C12_Witness ==
    /\ last.op = "identity_map" /\ last.res = "ok"
    /\ last.begin = PAGE_SIZE \div 2 /\ last.end = 2 * PAGE_SIZE + 1
    /\ blockTop = 0
    /\ LogIndices("alloc") # {}
    /\ \A p \in {0, PAGE_SIZE, 2 * PAGE_SIZE} :
          \E b \in Blocks(mem) : b[1] = 0 /\ b[2] = p

(***************************************************************************)
(* C13  Non-empty tables.  As claimed: whenever no operation is in         *)
(* progress, after any sequence of identity_map, unmap and defrag calls,   *)
(* failed ones included, every table reachable from the root other than a *)
(* root table has at least one present descriptor.                         *)
(***************************************************************************)
NonEmptyTables(m) ==
    \A s \in Slots(m) :
        arch_mm_pte_is_table(m[s[1]][s[2]], s[3])
        => \E i \in Idx :
               arch_mm_pte_is_present(m[arch_mm_table_from_pte(m[s[1]][s[2]], s[3])][i],
                                      s[3] - 1)

RootPages == { t[1] + r * PAGE_SIZE : t \in tables, r \in 0 .. (ROOT_TABLE_COUNT - 1) }

\* The table descriptors reachable from the roots: <<slot, page pointed at>>.
TableLinks(m) ==
    { <<s, arch_mm_table_from_pte(m[s[1]][s[2]], s[3])>> :
        s \in { x \in UNION { SlotsUnder(m, p, MAX_LEVEL) : p \in RootPages } :
                    arch_mm_pte_is_table(m[x[1]][x[2]], x[3]) } }

\* C14: whatever the exported functions have done to the page tables that
\* share the pool, no page is pointed at by two table descriptors or by a
\* table descriptor and a root, and a page pointed at from level L holds the
\* descriptors of level L - 1 only.
C14_ExclusiveOwnership ==
    /\ \A a, b \in TableLinks(mem) : a[2] = b[2] => a[1] = b[1]
    /\ \A a \in TableLinks(mem) : a[2] \notin RootPages /\ a[2] \in Pages
    /\ \A a, b \in UNION { SlotsUnder(mem, p, MAX_LEVEL) : p \in RootPages } :
          a[1] = b[1] => a[3] = b[3]

\* Two page tables with a table each, one of them just added by a call that
\* took a page the pool had been given back (a page below a root: the pool
\* hands out its lowest page).
C14_Witness ==
    /\ Cardinality(tables) = 2
    /\ \A t \in tables : \E a \in TableLinks(mem) : a[1][1] = t[1]
    /\ last.op \in {"mm_vm_identity_map", "mm_identity_map"}
    /\ last.res = "ok"
    /\ \E k \in LogIndices("alloc") :
          /\ last.log[k][2] \in last.prePool
          /\ \E t \in tables : last.log[k][2] < t[1]

(***************************************************************************)
(* C15  The huge block: the entry of level 1 (2 MiB with 4 KiB pages and   *)
(* 512 descriptors a table) at address 0.                                  *)
(***************************************************************************)
\* identity_map(0, entry_size(1)) has run on a fresh table.
HugeMapOnFresh ==
    /\ last.op = "identity_map" /\ ~last.again
    /\ last.begin = 0 /\ last.end = entry_size(1)
    /\ last.pre = FreshMem

\* The pages the call needs: a table for every level above level 1, and one
\* of level 0 where the architecture allows no block at level 1.
HugeMapPages == (MAX_LEVEL - 1) + (IF arch_mm_is_block_allowed(1) THEN 0 ELSE 1)

\* C15 as claimed: the call succeeds without taking a page from the pool and
\* leaves a single block descriptor, at level 1.
C15_HugeBlockNoAllocation ==
    HugeMapOnFresh
    => /\ last.res = "ok"
       /\ LogIndices("alloc") = {}
       /\ \E b \in Blocks(mem) : Blocks(mem) = {b} /\ b[1] = 1

\* C15: the call takes a page for every table between the root and level 1,
\* so it succeeds exactly when the pool grants HugeMapPages pages, and without
\* any page only when level 1 is the level of the root tables' descriptors
\* and allows blocks; when it succeeds and blocks are allowed at level 1 the
\* result is a single block descriptor at level 1, otherwise one block for
\* every page.
C15_HugeBlockAllocation ==
    HugeMapOnFresh
    => /\ last.res \in {"ok", "none"}
       /\ last.res = "ok"
            => /\ Cardinality(LogIndices("alloc")) = HugeMapPages
               /\ LogIndices("dlog") = {}
               /\ IF arch_mm_is_block_allowed(1)
                     THEN \E b \in Blocks(mem) : Blocks(mem) = {b} /\ b[1] = 1 /\ b[2] = 0
                     ELSE /\ \A b \in Blocks(mem) : b[1] = 0
                          /\ { b[2] : b \in Blocks(mem) } = PagesIn(0, entry_size(1))
       /\ last.res = "none"
            => /\ Cardinality(LogIndices("alloc")) < HugeMapPages
               /\ LogIndices("dlog") # {}
               /\ Blocks(mem) = {}

\* Four levels, blocks allowed at level 1: the call took two pages and left
\* one block at level 1.
C15_Witness ==
    /\ HugeMapOnFresh
    /\ MAX_LEVEL = DeepMaxLevel
    /\ last.res = "ok"
    /\ Cardinality(LogIndices("alloc")) = 2
    /\ \E b \in Blocks(mem) : Blocks(mem) = {b} /\ b[1] = 1

(***************************************************************************)
(* C16  Out-of-memory is surfaced.                                         *)
(***************************************************************************)
\* The pool returned nothing to a mapping of the call.
MappingFailed == LogIndices("dlog") # {}

\* The value the call returned reports failure: false, or the null pointer.
ReportsFailure ==
    IF last.op = "mm_identity_map" THEN last.ret = 0 ELSE last.ret = FALSE

\* C16 as claimed: an exported mapping call, mm_init included, that had a
\* mapping fail for want of a page reports failure to its caller.
C16_OutOfMemorySurfaced ==
    (/\ last.op \in {"mm_vm_identity_map", "mm_vm_unmap", "mm_vm_unmap_hypervisor",
                      "mm_identity_map", "mm_unmap", "mm_init"}
     /\ MappingFailed)
    => ReportsFailure

\* The same for every call but mm_init.
C16_OutOfMemorySurfacedButInit ==
    (/\ last.op \in {"mm_vm_identity_map", "mm_vm_unmap", "mm_vm_unmap_hypervisor",
                      "mm_identity_map", "mm_unmap"}
     /\ MappingFailed)
    => ReportsFailure

\* mm_init has returned true although the data section is not mapped.
C16_InitSucceedsUnmapped ==
    /\ last.op = "mm_init" /\ last.ret = TRUE /\ MappingFailed
    /\ Walk(mem, layout_data_begin) # mode_to_attrs(MODE_R + MODE_W)

\* No partial commit: a call that reports failure has changed no translation.
C16_NoPartialCommit ==
    (/\ last.op \in {"mm_vm_identity_map", "mm_vm_unmap", "mm_vm_unmap_hypervisor",
                      "mm_identity_map", "mm_unmap"}
     /\ ReportsFailure /\ MappingFailed)
    => \A p \in PageAddrs : Walk(mem, p) = Walk(last.pre, p)

\* The same for the calls that ask for one mapping.
C16_NoPartialCommitOfOneMapping ==
    (/\ last.op \in {"mm_vm_identity_map", "mm_vm_unmap", "mm_identity_map", "mm_unmap"}
     /\ ReportsFailure /\ MappingFailed)
    => \A p \in PageAddrs : Walk(mem, p) = Walk(last.pre, p)

(***************************************************************************)
(* C17  Root-bound rejection.                                              *)
(***************************************************************************)
\* get_attrs(b, e) has been called with e beyond the end of the address
\* space the root tables represent.
QueryBeyondRoot == last.op = "get_attrs" /\ last.end > PTableEnd

\* The query has failed: get_attrs and get_mode return None.
QueryFails ==
    /\ last.res = "ok"
    /\ last.ret = None
    /\ get_mode(last.pre, last.begin, last.end) = None

\* C17 as claimed: for every b and every e beyond the root's coverage,
\* get_attrs(b, e) and get_mode(b, e) return failure and read no descriptor
\* outside the root tables.
C17_RootBoundRejection ==
    QueryBeyondRoot
    => /\ QueryFails
       /\ \A d \in last.reads : \E r \in 0 .. (ROOT_TABLE_COUNT - 1) : d[1] = RootTables[r]

\* The same wherever rounding e up to a page does not overflow, or the build
\* has no overflow checks; no descriptor at all is read.
C17_RootBoundRejectionUnlessOverflow ==
    (QueryBeyondRoot /\ last.res # "panic") => (QueryFails /\ last.reads = {})

\* With overflow checks, the query of a range that ends at the last address
\* panics.
C17_QueryPanics ==
    /\ QueryBeyondRoot /\ last.end = USIZE_MAX
    /\ last.res = "panic"

\* Without them the rounded end wraps to 0, the range check passes, and the
\* query fails on the empty iteration.
C17_QueryWraps ==
    /\ QueryBeyondRoot /\ last.end = USIZE_MAX /\ last.begin = 0
    /\ round_up_to_page(last.end) = 0
    /\ QueryFails

(***************************************************************************)
(* C18  Inverted range rejection.                                          *)
(***************************************************************************)
\* C18 as claimed: for every begin and end with end < begin, whatever their
\* alignment, get_attrs and get_mode return None.
C18_InvertedRangeRejection ==
    (last.op = "get_attrs" /\ last.end < last.begin) => QueryFails

\* The same for the inverted ranges that are still inverted or empty once
\* begin is rounded down and end is rounded up.
C18_InvertedRangeRejectionAfterRounding ==
    (/\ last.op = "get_attrs" /\ last.end < last.begin
     /\ round_up_to_page(last.end) <= round_down_to_page(last.begin))
    => QueryFails

\* get_attrs(PAGE_SIZE + 2, PAGE_SIZE + 1) has answered for the page.
C18_InvertedRangeAnswered ==
    /\ last.op = "get_attrs" /\ last.end < last.begin
    /\ last.ret = Some(Walk(last.pre, round_down_to_page(last.begin)))
    /\ last.reads # {}

(***************************************************************************)
(* C19  Mutual exclusion on the hypervisor page table.                     *)
(***************************************************************************)
\* The CPUs inside one of the given functions.
Inside(ops) == { c \in Cpus : cpus.run[c].op \in ops }

\* C19 as claimed: a CPU inside mm_init, mm_identity_map, mm_unmap or
\* mm_defrag holds the lock of the hypervisor page table, and the descriptor
\* writes of two calls never interleave.
C19_MutualExclusion ==
    /\ \A c \in Inside({"mm_init_new", "mm_init", "mm_identity_map", "mm_unmap",
                         "mm_defrag"}) :
          cpus.lock = c \/ (cpus.run[c].pending = <<>> /\ cpus.run[c].op # "mm_init_new")
    /\ ~cpus.interleaved

\* The same for the functions that call lock(): one CPU at most is inside
\* them, and it holds the lock until its last step.
C19_MutualExclusionOfLockedCalls ==
    /\ \A c \in Inside({"mm_identity_map", "mm_unmap", "mm_defrag"}) :
          cpus.lock = c \/ cpus.run[c].pending = <<>>
    /\ Cardinality({ c \in Inside({"mm_identity_map", "mm_unmap", "mm_defrag"}) :
                        cpus.run[c].pending # <<>> }) <= 1

\* A CPU inside mm_init and a CPU inside mm_identity_map have written
\* descriptors in turn.
C19_WritesInterleaved ==
    /\ cpus.interleaved
    /\ Inside({"mm_init"}) # {}
    /\ Inside({"mm_identity_map"}) # {}

(***************************************************************************)
(* C20  Page conservation.                                                 *)
(***************************************************************************)
\* The pages the page tables that exist are made of: their root tables and
\* the tables reachable from them in the heap `m`.
OwnedPages(m) == RootPages \cup { a[2] : a \in TableLinks(m) }

\* The pages the call has returned to the pool, one for every mpool.free.
FreedPages == { last.log[k][2] : k \in LogIndices("free") }

\* C20: whenever a call of the exported functions has returned, the pages
\* that are out of the pool are exactly the root tables and the tables
\* reachable from them; and mm_vm_fini returns every page of the table it
\* drops, each in one mpool.free, and takes nothing from the pool.
C20_PageConservation ==
    /\ Pages \ pool = OwnedPages(mem)
    /\ last.op = "mm_vm_fini" =>
          /\ \A j, k \in LogIndices("free") : last.log[j][2] = last.log[k][2] => j = k
          /\ FreedPages = (Pages \ last.prePool) \ OwnedPages(last.pre)
          /\ pool = last.prePool \cup FreedPages
          /\ FreedPages \cap last.prePool = {}
          /\ LogIndices("alloc") = {}

\* mm_vm_fini has dropped a table that had a table below its root, while the
\* hypervisor's page table exists.
C20_Witness ==
    /\ last.op = "mm_vm_fini"
    /\ Cardinality(LogIndices("free")) >= 2
    /\ tables # {}

\* PageTable::drop on the table addressed, from any state: every page of it
\* goes back to the pool in one mpool.free each.
DropFreed == LET d == table_drop(Start(0))
             IN  [pages |-> { d.log[k][2] : k \in 1 .. Len(d.log) },
                  count |-> Len(d.log), pool |-> d.pool]

C20_DropFromAnyState ==
    (root # 0 /\ last.res # "panic") =>
        \E d \in { DropFreed } :
            /\ d.pages = Pages \ pool
            /\ d.count = Cardinality(d.pages)
            /\ d.pool = Pages

(***************************************************************************)
(* C21  Termination.                                                       *)
(***************************************************************************)
\* The descriptors a tree with every table present has: ROOT_TABLE_COUNT
\* tables of level MAX_LEVEL, PTE_PER_PAGE times as many at each level below.
RECURSIVE SlotsFrom(_)
SlotsFrom(level) ==
    IF level < 0 THEN 0
    ELSE ROOT_TABLE_COUNT * PTE_PER_PAGE ^ (MAX_LEVEL - level + 1) + SlotsFrom(level - 1)

TreeSlots == SlotsFrom(MAX_LEVEL)

\* The steps of one kind the operation has taken: positions in last.steps.
StepIndices(kind) == { k \in 1 .. Len(last.steps) : last.steps[k][1] = kind }

\* The turns of map_level's loop in the pass with the given flags.
MapSteps(commit) ==
    { k \in StepIndices("map_level") : HasBit(last.steps[k][6], FLAG_COMMIT) = commit }

\* The end identity_update hands to map_root.
UpdateEnd == Min(round_up_to_page(last.end), PTableEnd)

RECURSIVE HeapAfter(_, _, _)
HeapAfter(m, log, n) ==
    IF n = 0 THEN m
    ELSE LET before == HeapAfter(m, log, n - 1)
             e == log[n]
         IN  IF e[1] = "write" THEN [before EXCEPT ![e[2]][e[3]] = e[4]]
             ELSE IF e[1] = "free" THEN [before EXCEPT ![e[2]] = [i \in Idx |-> 0]]
             ELSE before

\* The mpool.free calls that return a page while a descriptor reachable from
\* a root still points at it: positions in last.log.
FreedWhileLinked ==
    { k \in LogIndices("free") :
        last.log[k][2] \in { a[2] : a \in TableLinks(HeapAfter(last.pre, last.log, k - 1)) } }

\* C22 as claimed: in every intermediate state of every operation, a page
\* that is returned to the pool is pointed at by no descriptor reachable from
\* a root: the slot is overwritten before the old table is freed.
C22_NoReachableFreedPage == FreedWhileLinked = {}

\* The same for the operations that free through replace (identity_map and
\* unmap, the collapse of an emptied table included).
C22_NoReachableFreedPageInReplace ==
    last.op \in {"identity_map", "unmap"} => FreedWhileLinked = {}

\* defrag has returned a table to the pool while the slot still pointed at it.
C22_DefragFreesLinkedTable ==
    /\ last.op = "defrag"
    /\ \E k \in FreedWhileLinked :
          /\ k < Len(last.log)
          /\ last.log[k + 1][1] = "write"
          /\ arch_mm_pte_is_table(last.pre[last.log[k + 1][2]][last.log[k + 1][3]],
                                  MAX_LEVEL)
          /\ arch_mm_table_from_pte(last.pre[last.log[k + 1][2]][last.log[k + 1][3]],
                                    MAX_LEVEL) = last.log[k][2]

\* unmap has freed an emptied table after it wrote the slot absent.
C22_ReplaceFreesUnlinkedTable ==
    /\ last.op = "unmap" /\ last.res = "ok"
    /\ LogIndices("free") # {}
    /\ FreedWhileLinked = {}

(***************************************************************************)
(* C23  Every slot write is a break-before-make write.                     *)
(***************************************************************************)
\* The descriptor the store logged at k overwrites.
Overwritten(k) == HeapAfter(last.pre, last.log, k - 1)[last.log[k][2]][last.log[k][3]]

\* The stores that take a slot from a valid descriptor straight to another
\* valid descriptor: positions in last.log.
DirectValidChanges ==
    { k \in LogIndices("write") :
        /\ arch_mm_pte_is_valid(Overwritten(k), MAX_LEVEL)
        /\ arch_mm_pte_is_valid(last.log[k][4], MAX_LEVEL)
        /\ Overwritten(k) # last.log[k][4] }

\* The stores into slots reachable from the root that are not the stores of
\* a replace of that slot (the slot's replace is the last replace logged
\* before the store).
WritesOutsideReplace ==
    { k \in LogIndices("write") :
        /\ \E sl \in Slots(HeapAfter(last.pre, last.log, k - 1)) :
              sl[1] = last.log[k][2] /\ sl[2] = last.log[k][3]
        /\ \A r \in LogIndices("replace") :
              (r < k /\ \A q \in LogIndices("replace") : q < k => q <= r)
              => (last.log[r][2] # last.log[k][2] \/ last.log[r][3] # last.log[k][3]) }

\* C23 as claimed: no store of identity_map, unmap or defrag takes a slot
\* from a valid descriptor straight to a different valid one, and every
\* store into a slot of the tree is a store of replace.
C23_EveryWriteBreakBeforeMake ==
    /\ DirectValidChanges = {}
    /\ WritesOutsideReplace = {}

\* The same for identity_map and unmap, whose stores into the tree are all
\* made by replace.
C23_BreakBeforeMakeInReplace ==
    last.op \in {"identity_map", "unmap"}
    => (DirectValidChanges = {} /\ WritesOutsideReplace = {})

\* defrag has overwritten a table descriptor with the merged block in one
\* store, with no invalidation before it.
C23_DefragWritesDirectly ==
    /\ last.op = "defrag"
    /\ \E k \in DirectValidChanges :
          /\ arch_mm_pte_is_table(Overwritten(k), MAX_LEVEL)
          /\ arch_mm_pte_is_block(last.log[k][4], MAX_LEVEL)
    /\ LogIndices("invalidate_tlb") = {}
    /\ LogIndices("replace") = {}

\* A replace of identity_map has changed a valid descriptor to another valid
\* one through an absent one.
C23_ReplaceBreaksFirst ==
    /\ last.op = "identity_map" /\ last.res = "ok"
    /\ DirectValidChanges = {}
    /\ \E k \in LogIndices("replace") :
          /\ arch_mm_pte_is_valid(last.log[k][4], last.log[k][7])
          /\ arch_mm_pte_is_valid(last.log[k][5], last.log[k][7])

(***************************************************************************)
(* C24  Defrag and tables whose descriptors are all absent.                *)
(***************************************************************************)
\* The slots of the tree of heap m that point at a table whose descriptors
\* are all absent.
EmptyTables(m) ==
    { sl \in Slots(m) :
        /\ arch_mm_pte_is_table(m[sl[1]][sl[2]], sl[3])
        /\ is_empty(m[arch_mm_table_from_pte(m[sl[1]][sl[2]], sl[3])], sl[3] - 1) }

\* C24 as claimed: defrag of an absent descriptor returns its attributes, and
\* once defrag has returned no table is left whose descriptors are all
\* absent: it is back in the pool and the slot is absent.
C24_DefragCollapsesAbsentTables ==
    last.op = "defrag"
    => /\ EmptyTables(mem) = {}
       /\ \A sl \in EmptyTables(last.pre) :
             /\ mem[sl[1]][sl[2]] = arch_mm_absent_pte(sl[3])
             /\ arch_mm_table_from_pte(last.pre[sl[1]][sl[2]], sl[3]) \in pool
       /\ \A sl \in Slots(mem) :
             mem[sl[1]][sl[2]] = arch_mm_absent_pte(sl[3])
             => defrag(Start(0), sl[1], sl[2], sl[3]).ret
                   = Some(arch_mm_pte_attrs(arch_mm_absent_pte(sl[3]), sl[3]))

\* What the code does: defrag leaves every table whose descriptors are all
\* absent where it is, and returns None for an absent descriptor.
C24_DefragKeepsAbsentTables ==
    last.op = "defrag"
    => /\ EmptyTables(last.pre) \subseteq EmptyTables(mem)
       /\ \A sl \in Slots(mem) :
             mem[sl[1]][sl[2]] = arch_mm_absent_pte(sl[3])
             => defrag(Start(0), sl[1], sl[2], sl[3]).ret = None

\* The empty table a failed identity_map left behind is still there after
\* defrag, which has changed nothing.
C24_EmptyTableSurvivesDefrag ==
    /\ last.op = "defrag"
    /\ EmptyTables(mem) # {}
    /\ mem = last.pre
    /\ pool = last.prePool
    /\ LogIndices("free") = {}

(***************************************************************************)
(* C25  Pass 1 is translation-neutral.                                     *)
(***************************************************************************)
\* The stores and pool calls of the first pass of identity_update: the log
\* up to where map_root was called with COMMIT, all of it when it was not.
PassOneEnd ==
    IF \E k \in StepIndices("map_root") : HasBit(last.steps[k][2], FLAG_COMMIT)
       THEN last.steps[CHOOSE k \in StepIndices("map_root") :
                           HasBit(last.steps[k][2], FLAG_COMMIT)][3]
       ELSE Len(last.log)

\* The heap when the first pass has returned.
HeapAfterPassOne == HeapAfter(last.pre, last.log, PassOneEnd)

PassTwoStarted ==
    \E k \in StepIndices("map_root") : HasBit(last.steps[k][2], FLAG_COMMIT)

\* C26: once the first pass of identity_map or unmap has succeeded, the
\* second pass takes no page from the pool and returns success; a call that
\* fails has failed in the first pass, before any leaf has been installed or
\* removed (every replace it has made has installed a table).
C26_PassTwoCannotFail ==
    Updated
    => /\ PassTwoStarted
            => /\ last.res = "ok"
               /\ \A k \in LogIndices("alloc") \cup LogIndices("dlog") : k <= PassOneEnd
       /\ last.res # "ok"
            => /\ ~PassTwoStarted
               /\ \A k \in LogIndices("replace") :
                     arch_mm_pte_is_table(last.log[k][5], last.log[k][7])

\* A call whose first pass took the last page of the pool, and whose second
\* pass then installed leaves.
C26_Witness ==
    /\ Updated /\ last.res = "ok"
    /\ PassTwoStarted
    /\ LogIndices("alloc") # {}
    /\ pool = {}
    /\ \E k \in LogIndices("replace") :
          /\ k > PassOneEnd
          /\ ~arch_mm_pte_is_table(last.log[k][5], last.log[k][7])

(***************************************************************************)
(* C27  Publication order in populate_table.                               *)
(***************************************************************************)
\* The replace calls that install a table descriptor: positions in last.log.
TableInstalls ==
    { r \in LogIndices("replace") : arch_mm_pte_is_table(last.log[r][5], last.log[r][7]) }

\* The table installed at r was taken from the pool at a, each of its
\* descriptors was then written with the value populate_table gives it, and
\* the fence at f came after the last of these stores and before replace.
PublishedInOrder(r, a, f) ==
    LET ev == last.log[r]
        table == arch_mm_table_from_pte(ev[5], ev[7])
    IN  /\ a < f /\ f < r
        /\ last.log[a] = <<"alloc", table>>
        /\ last.log[f] = <<"fence">>
        /\ \A i \in Idx :
              \E w \in LogIndices("write") :
                  /\ a < w /\ w < f
                  /\ last.log[w] = <<"write", table, i, PopulateEntry(ev[4], i, ev[7])>>
        /\ \A w \in LogIndices("write") :
              (w < r /\ w > a) => last.log[w][2] = table

\* C27: every table descriptor a call installs points at a table the call
\* took from the pool and wrote in full (absent descriptors, or the blocks
\* that make up the block being split) before the release fence, and the
\* fence comes before the stores of replace; at no point of the call is a
\* table reachable from the root before its last descriptor is written.
C27_PublicationOrder ==
    /\ \A r \in TableInstalls :
          \E a \in LogIndices("alloc"), f \in LogIndices("fence") : PublishedInOrder(r, a, f)
    /\ \A a \in LogIndices("alloc") :
          \A w \in LogIndices("write") :
              (w > a /\ last.log[w][2] = last.log[a][2]
                     /\ \A u \in (a + 1) .. (w - 1) :
                           last.log[u][1] = "write" /\ last.log[u][2] = last.log[a][2])
              => last.log[a][2]
                    \notin { l[2] : l \in TableLinks(HeapAfter(last.pre, last.log, w - 1)) }

\* A valid block has been split: the fresh table was written in full, then
\* came the fence, then replace's absent descriptor, invalidation and table
\* descriptor.
C27_Witness ==
    /\ last.op \in {"identity_map", "unmap"}
    /\ \E r \in TableInstalls :
          /\ arch_mm_pte_is_block(last.log[r][4], last.log[r][7])
          /\ arch_mm_pte_is_valid(last.log[r][4], last.log[r][7])
          /\ last.log[r - 1] = <<"fence">>
          /\ last.log[r + 1][1] = "write"
          /\ last.log[r + 1][4] = arch_mm_absent_pte(last.log[r][7])

(***************************************************************************)
(* C28  Final invalidation.                                                *)
(***************************************************************************)
\* The begin identity_update hands to map_root and to invalidate_tlb.
UpdateBegin == arch_mm_clear_pa(last.begin)

\* The last S::invalidate_tlb call of the operation: its position in
\* last.log, 0 when there is none.
LastInvalidate ==
    IF LogIndices("invalidate_tlb") = {} THEN 0
    ELSE CHOOSE k \in LogIndices("invalidate_tlb") :
            \A j \in LogIndices("invalidate_tlb") : j <= k

\* C28: a call of identity_map or unmap whose COMMIT pass has run ends with
\* S::invalidate_tlb(begin, end) for the page-aligned begin and the rounded
\* and clamped end, whether or not a descriptor changed: the call comes after
\* every store, pool call and replace of both passes, and nothing follows it
\* but the architecture's invalidation of the same range (on stage 1, and on
\* stage 2 once invalidation is enabled).
C28_FinalInvalidation ==
    (Updated /\ PassTwoStarted)
    => /\ last.res = "ok"
       /\ LastInvalidate > PassOneEnd
       /\ last.log[LastInvalidate] = <<"invalidate_tlb", UpdateBegin, UpdateEnd>>
       /\ \A k \in 1 .. Len(last.log) :
             k > LastInvalidate
             => /\ k = LastInvalidate + 1
                /\ ArchInvalidates
                /\ last.log[k] = <<"arch_invalidate", stage, UpdateBegin, UpdateEnd>>
       /\ ArchInvalidates => Len(last.log) = LastInvalidate + 1

\* unmap of a range that ends beyond the root's coverage, where nothing of
\* it is mapped: no store, and the invalidation of [begin, ptable_end).
C28_Witness ==
    /\ last.op = "unmap" /\ last.res = "ok"
    /\ mem = last.pre
    /\ LogIndices("write") = {}
    /\ last.end > PTableEnd
    /\ last.log[1] = <<"invalidate_tlb", round_down_to_page(last.begin), PTableEnd>>

(***************************************************************************)
(* C29  Stage-2 invalidation gating.                                       *)
(***************************************************************************)
\* The S::invalidate_tlb call logged at k is followed by the architecture's
\* invalidation of the same range for the table's stage.
ReachesArch(k) ==
    /\ k < Len(last.log)
    /\ last.log[k + 1] = <<"arch_invalidate", stage, last.log[k][2], last.log[k][3]>>

\* In the operation just done: on stage 2 with the flag false no
\* invalidation request (of replace or of identity_update) reached the
\* architecture; with the flag true every one did; on stage 1 every one did,
\* whatever the flag; and the architecture invalidated nothing unrequested.
C29_GatedNow ==
    /\ \A k \in LogIndices("invalidate_tlb") :
          ReachesArch(k) <=> (stage = 1 \/ s2inv)
    /\ (stage = 2 /\ ~s2inv) => LogIndices("arch_invalidate") = {}
    /\ \A k \in LogIndices("arch_invalidate") :
          k > 1 /\ last.log[k - 1][1] = "invalidate_tlb" /\ ReachesArch(k - 1)

\* C29: the gating holds for every operation, and once
\* mm_vm_enable_invalidation has set the flag it stays set.
C29_Stage2InvalidationGating ==
    /\ []C29_GatedNow
    /\ [][s2inv => s2inv']_vars

\* On stage 2 with invalidation enabled, a call that replaced a valid
\* descriptor by a valid one: the invalidation of replace and the final one
\* of identity_update both reached the architecture.
C29_Witness ==
    /\ stage = 2 /\ s2inv
    /\ Updated /\ last.res = "ok"
    /\ \E k \in LogIndices("replace") :
          /\ arch_mm_pte_is_valid(last.log[k][4], last.log[k][7])
          /\ arch_mm_pte_is_valid(last.log[k][5], last.log[k][7])
    /\ Cardinality(LogIndices("arch_invalidate")) >= 2
    /\ Cardinality(LogIndices("arch_invalidate")) = Cardinality(LogIndices("invalidate_tlb"))

\* On stage 2 with invalidation not yet enabled, the same kind of call: two
\* requests, none reached the architecture.
C29_WitnessDisabled ==
    /\ stage = 2 /\ ~s2inv
    /\ Updated /\ last.res = "ok"
    /\ Cardinality(LogIndices("invalidate_tlb")) >= 2
    /\ LogIndices("arch_invalidate") = {}

(***************************************************************************)
(* C30  Silent clamping on update.                                         *)
(***************************************************************************)
\* Ends beyond the root's coverage: just beyond it, a page beyond it, the
\* last page boundary, and two addresses of the last page, which
\* round_up_to_page cannot round up within usize.
WideEnds ==
    { PTableEnd + 1, PTableEnd + PAGE_SIZE, round_down_to_page(USIZE_MAX),
      round_down_to_page(USIZE_MAX) + 1, USIZE_MAX }

\* Ranges that begin inside the coverage, on a page boundary or inside a
\* page, and end beyond it.
WideRanges == (PageAddrs \cup { PAGE_SIZE \div 2 }) \X WideEnds

\* `addr + PAGE_SIZE - 1` has overflowed in a build with overflow checks: the
\* call panics before it touches the table.
UpdatePanics(op, begin, end, mode) ==
    /\ last' = [Idle EXCEPT !.op = op, !.begin = begin, !.end = end, !.mode = mode,
                            !.res = "panic", !.pre = mem, !.prePool = pool]
    /\ UNCHANGED <<mem, pool, stage, blockTop, s2inv, maxLevel, root, tables, cpus>>

\* PageTable::identity_map with an end beyond the coverage, in a build with
\* overflow checks or in one without.
IdentityMapWide ==
    /\ last.op = "idle"
    /\ \E r \in WideRanges, mode \in Modes, fuel \in Fuels, overflow_checks \in BOOLEAN :
          IF overflow_checks /\ RoundUpOverflows(r[2])
             THEN UpdatePanics("identity_map", r[1], r[2], mode)
             ELSE Finish(identity_map(Start(fuel), r[1], r[2], mode),
                         "identity_map", r[1], r[2], mode, FALSE)

\* PageTable::unmap with an end beyond the coverage.
UnmapWide ==
    /\ last.op = "idle"
    /\ \E r \in WideRanges, fuel \in Fuels, overflow_checks \in BOOLEAN :
          IF overflow_checks /\ RoundUpOverflows(r[2])
             THEN UpdatePanics("unmap", r[1], r[2], 0)
             ELSE Finish(unmap(Start(fuel), r[1], r[2]), "unmap", r[1], r[2], 0, FALSE)

NextWide == IdentityMapWide \/ UnmapWide \/ Return

SpecWide == Init /\ [][NextWide]_vars

UpdateBeyondRoot ==
    Updated /\ arch_mm_clear_pa(last.begin) < PTableEnd /\ last.end > PTableEnd

\* The same call with end at the end of the coverage, on the heap and the
\* pool the call found.
ClampedCall(fuel) ==
    IF last.op = "identity_map"
       THEN identity_map([mem |-> last.pre, pool |-> last.prePool, fuel |-> fuel,
                          log |-> <<>>, res |-> "ok", steps |-> <<>>],
                         last.begin, PTableEnd, last.mode)
       ELSE unmap([mem |-> last.pre, pool |-> last.prePool, fuel |-> fuel,
                   log |-> <<>>, res |-> "ok", steps |-> <<>>],
                  last.begin, PTableEnd)

\* [begin, coverage_end) has been updated: the call did what the call with
\* end = coverage_end does, store for store; every page from begin on has the
\* attributes asked for (those of a table nothing was mapped in, for unmap)
\* and every page before it the ones it had; and the TLB invalidation is for
\* [begin, coverage_end).
ClampedUpdateDone ==
    /\ \E fuel \in Fuels : \E r \in { ClampedCall(fuel) } :
          r.res = "ok" /\ r.mem = mem /\ r.pool = pool /\ r.log = last.log
    /\ \A p \in PageAddrs :
          Walk(mem, p) = IF p < UpdateBegin THEN Walk(last.pre, p)
                         ELSE IF last.op = "identity_map" THEN mode_to_attrs(last.mode)
                         ELSE Walk(FreshMem, p)
    /\ LastInvalidate > 0
    /\ last.log[LastInvalidate] = <<"invalidate_tlb", UpdateBegin, PTableEnd>>

\* The tables of the tree the call found and the pages it took from the pool.
TreePages ==
    { s[1] : s \in Slots(last.pre) } \cup { last.log[k][2] : k \in LogIndices("alloc") }

\* Every descriptor the call looked at or wrote is a slot of a table of the
\* tree, for an address of [begin, coverage_end), and at the root level a
\* slot of a root table.
TouchedWithinRoot ==
    /\ \A k \in LogIndices("write") :
          last.log[k][2] \in TreePages /\ last.log[k][3] \in Idx
    /\ \A k \in StepIndices("map_level") :
          /\ last.steps[k][2] \in TreePages /\ last.steps[k][3] \in Idx
          /\ UpdateBegin <= last.steps[k][4] /\ last.steps[k][4] < PTableEnd
          /\ last.steps[k][5] = MAX_LEVEL
             => \E r \in 0 .. (ROOT_TABLE_COUNT - 1) : last.steps[k][2] = RootTables[r]

\* C30 as claimed: identity_map and unmap with begin inside the root's
\* coverage and end beyond it do not fail because of the end; a call that
\* succeeds has updated [begin, coverage_end); and no descriptor outside the
\* root's tables is read or written.
C30_SilentClamping ==
    UpdateBeyondRoot
    => /\ last.res \in {"ok", "none"}
       /\ last.res = "none" => MappingFailed
       /\ last.res = "ok" => ClampedUpdateDone
       /\ TouchedWithinRoot

\* The same for every end that round_up_to_page can round up within usize.
C30_SilentClampingUnlessOverflow ==
    (UpdateBeyondRoot /\ ~RoundUpOverflows(last.end))
    => /\ last.res \in {"ok", "none"}
       /\ last.res = "none" => MappingFailed
       /\ last.res = "ok" => ClampedUpdateDone
       /\ TouchedWithinRoot

\* An end on the last page boundary: the second page, mapped before, has been
\* unmapped with everything behind it, and the first page keeps its mapping.
C30_ClampedUnmap ==
    /\ last.op = "unmap" /\ last.res = "ok"
    /\ last.begin = PAGE_SIZE /\ last.end = round_down_to_page(USIZE_MAX)
    /\ Walk(last.pre, 0) = mode_to_attrs(MODE_R)
    /\ Walk(last.pre, PAGE_SIZE) = mode_to_attrs(MODE_R)
    /\ Walk(mem, 0) = mode_to_attrs(MODE_R)
    /\ LogIndices("write") # {}
    /\ ClampedUpdateDone

\* With overflow checks, identity_map(0, usize::MAX) panics.
C30_UpdatePanicsAtLastAddress ==
    /\ last.op = "identity_map" /\ last.begin = 0 /\ last.end = USIZE_MAX
    /\ last.res = "panic"

\* Without them the rounded end wraps to 0: identity_map(0, usize::MAX)
\* returns Some, has looked at no descriptor and written none, invalidates
\* the empty range, and no page has the attributes asked for.
C30_UpdateWrapsAtLastAddress ==
    /\ last.op = "identity_map" /\ last.begin = 0 /\ last.end = USIZE_MAX
    /\ last.res = "ok"
    /\ mem = last.pre
    /\ last.steps = <<<<"map_root", 0, 0>>, <<"map_root", FLAG_COMMIT, 0>>>>
    /\ last.log[1] = <<"invalidate_tlb", 0, 0>>
    /\ \A p \in PageAddrs : Walk(mem, p) # mode_to_attrs(last.mode)
====
